---- MODULE Spec2Model ----
(***************************************************************************)
(* Real-time session synchronization engine of PairwiseRepl: the WebSocket *)
(* handler of server/routes.ts (connection registry `activeConnections`,   *)
(* the per-connection message router and `broadcast`).                     *)
(*                                                                         *)
(* Node runs every 'message' and 'close' callback to completion on one     *)
(* thread and the handlers contain no await, so each handler is one atomic *)
(* action.  A JavaScript Set iterates in insertion order, so a session     *)
(* group is modelled as a duplicate-free sequence of connections.          *)
(***************************************************************************)
EXTENDS Integers, Sequences, FiniteSets, TLC

\* ---------------------------------------------------------------- bounds
MaxEvents == 3
MaxClosing == 1
MaxRoomEvents == 2
MaxPosts == 2
MaxEdits == 2
MaxSessions == 2
MaxViewEvents == 3
MaxComments == 1

\* the sockets the server accepts, named by the order in which they connect
Conns == {1, 2, 3}
SessionIds == {"s1", "s2"}
\* the identity each client signs in with (currentUserId of the page)
UserNames == <<"u1", "u2", "u3", "u4", "u5">>
UserIdOf(ws) == UserNames[ws]
\* the text each client types into the editor
Texts == <<"hello", "bye", "x", "y", "z">>
CodeOf(ws) == Texts[ws]
Positions == {"p1"}
FilePaths == {"a.ts"}
\* the POST /api/sessions/:id/snapshots requests, in the order they arrive
ReqIds == 1..MaxPosts
\* the user every page signs in as
currentUserId == "fbc686e3-0305-49d5-a92a-462dca28e4fd"
\* the paths of the files of a project, in property order
Paths == <<"a.ts", "b.ts">>
\* file contents, as sequences of characters: "", "x\ny" and "x\ny\nz"
Contents == {<<>>, <<"x", "\n", "y">>, <<"x", "\n", "y", "\n", "z">>}
Descriptions == {"checkpoint"}

\* ------------------------------------------------------ JavaScript values
Null == "null"
Undefined == "undefined"
Anonymous == "anonymous"

\* a value is truthy unless it is null, undefined or the empty string
Truthy(v) == v \notin {Null, Undefined, ""}

\* mutant: the default is forgotten
OrElseNoDefault(a, b) == a

\* JavaScript `a || b`
OrElse(a, b) == IF Truthy(a) THEN a ELSE b

\* --------------------------------------------------------- inbound frames
NonJson == [json |-> FALSE]

Frame(type, sessionId, uid, code, position, filePath) ==
    [json |-> TRUE, type |-> type, sessionId |-> sessionId, userId |-> uid,
     code |-> code, position |-> position, filePath |-> filePath]

JoinFrames(ws) ==
    {Frame("join-session", s, UserIdOf(ws), Undefined, Undefined, Undefined) :
        s \in SessionIds \cup {Undefined}}
    \cup {Frame("join-session", "s1", Undefined, Undefined, Undefined, Undefined)}

EditFrames(ws) ==
    {Frame("editor-change", s, Undefined, c, Undefined, f) :
        s \in {"s1"}, c \in {CodeOf(ws), Undefined}, f \in FilePaths}

CursorFrames ==
    {Frame("cursor-move", s, Undefined, Undefined, p, f) :
        s \in {"s1"}, p \in Positions, f \in FilePaths}

LeaveFrames ==
    {Frame("leave-session", Undefined, Undefined, Undefined, Undefined, Undefined)}

UnknownFrames ==
    {Frame("ping", Undefined, Undefined, Undefined, Undefined, Undefined)}

Frames(ws) ==
    {NonJson} \cup JoinFrames(ws) \cup EditFrames(ws) \cup CursorFrames
        \cup LeaveFrames \cup UnknownFrames

\* ------------------------------------------------------------------ state
VARIABLES
    activeConnections,  \* Map<string, Set<WebSocket>>: key -> insertion-ordered group
    currentSessionId,   \* closure variable of each connection
    userId,             \* closure variable of each connection
    readyState,         \* ws.readyState of each connection ("ABSENT" before 'connection')
    inbox,              \* per connection, the strings passed to client.send, in order
    now,                \* Date.now(), as a logical clock: callbacks run so far
    lastEvent,          \* history: the callback that ran last and its argument
    snapshots,          \* the rows of the snapshots table, in insertion order
    requests,           \* each POST .../snapshots request: where its handler stands
    currentFileContent, \* per page, the editor's state: path -> code
    outbox,             \* per page, the frames sent and not yet handled by the server
    delivered,          \* per page, how many of its inbox messages onmessage has run for
    sessions,           \* the rows of the sessions table, in insertion order
    projectFiles,       \* the rows of the files table of the session's project
    comments,           \* the rows of the inline_comments table, in insertion order
    isViewingSnapshot,  \* per page, useState(false)
    snapshotFiles,      \* per page, useState([]): the nodes of the restored snapshot
    currentSnapshotId,  \* per page, useState(): the snapshot comments attach to
    filesQuery,         \* per page, the data of the project files query
    filesFetch,         \* per page, whether a fetch of that query is in flight
    editorFiles,        \* per page, SessionEditor's `files` state
    toast,              \* per page, the toast shown last
    timers,             \* per page, the setTimeout timers set and not fired or cleared
    saveTimerRef,       \* per page, saveTimerRef.current: path -> timer id
    currentIndex,       \* SessionReplay's currentIndex prop, kept by its parent
    isPlaying,          \* SessionReplay's useState(false)
    playbackSpeed,      \* SessionReplay's useState(1)
    snapshotsLength     \* snapshots.length of SessionReplay's snapshots prop

\* the tables other than snapshots
tableVars == <<sessions, projectFiles, comments>>

dbVars == <<snapshots, requests, tableVars>>

\* the state of the page's snapshot view and of its editor component
viewVars ==
    <<isViewingSnapshot, snapshotFiles, currentSnapshotId, filesQuery,
      filesFetch, editorFiles, toast>>

\* the page's save timers
saveVars == <<timers, saveTimerRef>>

\* the state the replay component shows
replayVars == <<currentIndex, isPlaying, playbackSpeed, snapshotsLength>>

pageVars ==
    <<currentFileContent, outbox, delivered, viewVars, saveVars, replayVars>>

vars ==
    <<activeConnections, currentSessionId, userId, readyState, inbox, now,
      lastEvent, snapshots, requests, currentFileContent, outbox, delivered,
      sessions, projectFiles, comments, isViewingSnapshot, snapshotFiles,
      currentSnapshotId, filesQuery, filesFetch, editorFiles, toast, timers,
      saveTimerRef, currentIndex, isPlaying, playbackSpeed, snapshotsLength>>

\* ------------------------------------------------- Set<WebSocket> helpers
Range(seq) == {seq[i] : i \in 1..Len(seq)}

\* mutant: membership is kept as a list
SetAddAppends(group, ws) == Append(group, ws)

\* Set.prototype.add: membership is a set, insertion order is kept
SetAdd(group, ws) == IF ws \in Range(group) THEN group ELSE Append(group, ws)

\* Set.prototype.delete
SetDelete(group, ws) == SelectSeq(group, LAMBDA x : x # ws)

\* Map.prototype.has / set / delete on activeConnections
MapHas(map, key) == key \in DOMAIN map

MapSet(map, key, value) ==
    [k \in DOMAIN map \cup {key} |-> IF k = key THEN value ELSE map[k]]

MapDelete(map, key) == [k \in DOMAIN map \ {key} |-> map[k]]

\* ----------------------------------------------------------- broadcast
\* JSON.stringify(message): properties whose value is undefined are left out
Stringify(message) ==
    [f \in {g \in DOMAIN message :
                \/ g \in {"timestamp", "snapshotId", "metadata"}
                \/ message[g] # Undefined} |-> message[f]]

\* mutant: the string overtakes the ones queued before it
SendOvertakes(box, client, messageStr) ==
    [box EXCEPT ![client] = <<messageStr>> \o @]

\* client.send(messageStr): the string is queued on the client's socket
Send(box, client, messageStr) ==
    [box EXCEPT ![client] = Append(@, messageStr)]

\* mutant: the sender is not skipped
RECURSIVE ForEachSendEcho(_, _, _, _, _, _)
ForEachSendEcho(group, i, messageStr, exclude, rs, box) ==
    IF i > Len(group) THEN box
    ELSE ForEachSendEcho(group, i + 1, messageStr, exclude, rs,
            IF rs[group[i]] = "OPEN"
            THEN Send(box, group[i], messageStr)
            ELSE box)

\* mutant: the loop ends at the first client it cannot send to
RECURSIVE ForEachSendAbort(_, _, _, _, _, _)
ForEachSendAbort(group, i, messageStr, exclude, rs, box) ==
    IF i > Len(group) THEN box
    ELSE IF group[i] = exclude
    THEN ForEachSendAbort(group, i + 1, messageStr, exclude, rs, box)
    ELSE IF rs[group[i]] # "OPEN" THEN box
    ELSE ForEachSendAbort(group, i + 1, messageStr, exclude, rs,
            Send(box, group[i], messageStr))

RECURSIVE ForEachSend(_, _, _, _, _, _)
ForEachSend(group, i, messageStr, exclude, rs, box) ==
    IF i > Len(group) THEN box
    ELSE ForEachSend(group, i + 1, messageStr, exclude, rs,
            IF group[i] # exclude /\ rs[group[i]] = "OPEN"
            THEN Send(box, group[i], messageStr)
            ELSE box)

\* broadcast(sessionId, message, exclude): the inboxes after the call, given the
\* registry `map`, the ready states `rs` and the inboxes `box` before it
Broadcast(map, sessionId, message, exclude, rs, box) ==
    IF ~MapHas(map, sessionId) THEN box
    ELSE ForEachSend(map[sessionId], 1, Stringify(message), exclude, rs, box)

\* mutant: the emptied group is left in the map
RemoveConnectionKeepsKey(map, sessionId, ws) ==
    IF ~MapHas(map, sessionId) THEN map
    ELSE MapSet(map, sessionId, SetDelete(map[sessionId], ws))

\* mutant: the connection is never taken out of its group
RemoveConnectionNoop(map, sessionId, ws) == map

\* connections.delete(ws); if (connections.size === 0) activeConnections.delete(id)
RemoveConnection(map, sessionId, ws) ==
    IF ~MapHas(map, sessionId) THEN map
    ELSE LET connections == SetDelete(map[sessionId], ws)
         IN  IF Len(connections) = 0
             THEN MapDelete(map, sessionId)
             ELSE MapSet(map, sessionId, connections)

\* ------------------------------------------------------ outbound messages
ParticipantJoined(uid) ==
    [type |-> "participant-joined", userId |-> uid, timestamp |-> now]

ParticipantLeft(uid) ==
    [type |-> "participant-left", userId |-> uid, timestamp |-> now]

\* mutant: the user id is taken from the frame instead of the join
EditorChangeMsgFromFrame(uid, data) ==
    [type |-> "editor-change", userId |-> data.userId, code |-> data.code,
     filePath |-> data.filePath, timestamp |-> now]

EditorChangeMsg(uid, data) ==
    [type |-> "editor-change", userId |-> uid, code |-> data.code,
     filePath |-> data.filePath, timestamp |-> now]

CursorMoveMsg(uid, data) ==
    [type |-> "cursor-move", userId |-> uid, position |-> data.position,
     filePath |-> data.filePath, timestamp |-> now]

\* ------------------------------------------------------------------- Init
\* an empty snapshots table and no request received yet
\* ------------------------------------------------ files, as the page holds them
\* path.split('/').pop() || path
BaseName(path) ==
    CASE path = "src/a.ts" -> "a.ts"
      [] OTHER -> path

\* a FileNode of the editor's tree
FileNode(name, path, content) ==
    [name |-> name, path |-> path, type |-> "file", content |-> content]

\* SessionEditor's defaultFiles; the content stands for the starter program
defaultFiles ==
    <<FileNode("main.ts", "main.ts", <<"// Start coding...">>)>>

\* useState(initialFiles.length > 0 ? initialFiles : defaultFiles)
MountFiles(initialFiles) ==
    IF Len(initialFiles) > 0 THEN initialFiles ELSE defaultFiles

\* the files table of the project as the session starts: one file
ProjectFiles == <<[id |-> 1, path |-> "a.ts", content |-> <<"x", "\n", "y">>]>>

\* currentSnapshotId when it is undefined; the ids of the rows start at 1
NoSnapshot == 0

\* no toast has been shown
NoToast == [variant |-> "none", title |-> ""]

InitDb ==
    /\ snapshots = <<>>
    /\ requests = [r \in ReqIds |-> [pc |-> "new"]]
    /\ sessions = <<>>
    /\ projectFiles = ProjectFiles
    /\ comments = <<>>

\* the page as first rendered with its session loaded: the files query has just
\* been enabled and has no data, so SessionEditor mounts with initialFiles = []
InitView ==
    /\ isViewingSnapshot = [c \in Conns |-> FALSE]
    /\ snapshotFiles = [c \in Conns |-> <<>>]
    /\ currentSnapshotId = [c \in Conns |-> NoSnapshot]
    /\ filesQuery = [c \in Conns |-> Undefined]
    /\ filesFetch = [c \in Conns |-> "pending"]
    /\ editorFiles = [c \in Conns |-> MountFiles(<<>>)]
    /\ toast = [c \in Conns |-> NoToast]

\* useRef({}): no save timer has been set
InitTimers ==
    /\ timers = [c \in Conns |-> {}]
    /\ saveTimerRef = [c \in Conns |-> [p \in {} |-> 0]]

\* the replay component as mounted on the first of `length` snapshots
ReplayMounted(length) ==
    /\ currentIndex = 0
    /\ isPlaying = FALSE
    /\ playbackSpeed = "1"
    /\ snapshotsLength = length

\* useState({}): no page holds code for any path; nothing sent, nothing received
InitPages ==
    /\ currentFileContent = [c \in Conns |-> [p \in FilePaths |-> Undefined]]
    /\ outbox = [c \in Conns |-> <<>>]
    /\ delivered = [c \in Conns |-> 0]
    /\ InitView
    /\ InitTimers
    /\ ReplayMounted(1)

Init ==
    /\ activeConnections = [k \in {} |-> <<>>]
    /\ currentSessionId = [c \in Conns |-> Null]
    /\ userId = [c \in Conns |-> Null]
    /\ readyState = [c \in Conns |-> "ABSENT"]
    /\ inbox = [c \in Conns |-> <<>>]
    /\ now = 0
    /\ lastEvent = [kind |-> "init", conn |-> 0, data |-> NonJson]
    /\ InitDb
    /\ InitPages

\* ---------------------------------------------------- switch (message.type)
\* mutant: a join from a joined connection announces its departure to the
\* session it was joined to
JoinSessionNotifiesPrevious(ws, message) ==
    LET sid == message.sessionId
        uid == OrElse(message.userId, Anonymous)
        created == IF Truthy(sid) /\ ~MapHas(activeConnections, sid)
                   THEN MapSet(activeConnections, sid, <<>>)
                   ELSE activeConnections
        added == IF Truthy(sid)
                 THEN MapSet(created, sid, SetAdd(created[sid], ws))
                 ELSE created
        told == IF Truthy(currentSessionId[ws]) /\ currentSessionId[ws] # sid
                THEN Broadcast(activeConnections, currentSessionId[ws],
                               ParticipantLeft(userId[ws]), ws, readyState, inbox)
                ELSE inbox
    IN  /\ currentSessionId' = [currentSessionId EXCEPT ![ws] = sid]
        /\ userId' = [userId EXCEPT ![ws] = uid]
        /\ activeConnections' = added
        /\ inbox' = IF Truthy(sid)
                    THEN Broadcast(added, sid, ParticipantJoined(uid), ws,
                                   readyState, told)
                    ELSE told

\* case 'join-session'
JoinSession(ws, message) ==
    LET sid == message.sessionId
        uid == OrElse(message.userId, Anonymous)
        created == IF Truthy(sid) /\ ~MapHas(activeConnections, sid)
                   THEN MapSet(activeConnections, sid, <<>>)
                   ELSE activeConnections
        added == IF Truthy(sid)
                 THEN MapSet(created, sid, SetAdd(created[sid], ws))
                 ELSE created
    IN  /\ currentSessionId' = [currentSessionId EXCEPT ![ws] = sid]
        /\ userId' = [userId EXCEPT ![ws] = uid]
        /\ activeConnections' = added
        /\ inbox' = IF Truthy(sid)
                    THEN Broadcast(added, sid, ParticipantJoined(uid), ws,
                                   readyState, inbox)
                    ELSE inbox

\* mutant: the frame's sessionId enrols the sender in that session's group
EditorChangeRejoins(ws, message) ==
    /\ inbox' = IF Truthy(currentSessionId[ws])
                THEN Broadcast(activeConnections, currentSessionId[ws],
                               EditorChangeMsg(userId[ws], message), ws,
                               readyState, inbox)
                ELSE inbox
    /\ activeConnections' =
            IF Truthy(message.sessionId) /\ MapHas(activeConnections, message.sessionId)
            THEN MapSet(activeConnections, message.sessionId,
                        SetAdd(activeConnections[message.sessionId], ws))
            ELSE activeConnections
    /\ UNCHANGED <<currentSessionId, userId>>

\* mutant: the message goes to the group of the session the frame names
EditorChangeToNamedSession(ws, message) ==
    /\ inbox' = IF Truthy(currentSessionId[ws])
                THEN Broadcast(activeConnections, message.sessionId,
                               EditorChangeMsg(userId[ws], message), ws,
                               readyState, inbox)
                ELSE inbox
    /\ UNCHANGED <<activeConnections, currentSessionId, userId>>

\* case 'editor-change'
EditorChange(ws, message) ==
    /\ inbox' = IF Truthy(currentSessionId[ws])
                THEN Broadcast(activeConnections, currentSessionId[ws],
                               EditorChangeMsg(userId[ws], message), ws,
                               readyState, inbox)
                ELSE inbox
    /\ UNCHANGED <<activeConnections, currentSessionId, userId>>

\* case 'cursor-move'
CursorMove(ws, message) ==
    /\ inbox' = IF Truthy(currentSessionId[ws])
                THEN Broadcast(activeConnections, currentSessionId[ws],
                               CursorMoveMsg(userId[ws], message), ws,
                               readyState, inbox)
                ELSE inbox
    /\ UNCHANGED <<activeConnections, currentSessionId, userId>>

\* mutant: the closure variables are not reset
LeaveSessionKeepsSession(ws, message) ==
    /\ inbox' = IF Truthy(currentSessionId[ws])
                THEN Broadcast(activeConnections, currentSessionId[ws],
                               ParticipantLeft(userId[ws]), ws, readyState, inbox)
                ELSE inbox
    /\ activeConnections' =
            IF Truthy(currentSessionId[ws])
            THEN RemoveConnection(activeConnections, currentSessionId[ws], ws)
            ELSE activeConnections
    /\ UNCHANGED <<currentSessionId, userId>>

\* case 'leave-session'
LeaveSession(ws, message) ==
    /\ inbox' = IF Truthy(currentSessionId[ws])
                THEN Broadcast(activeConnections, currentSessionId[ws],
                               ParticipantLeft(userId[ws]), ws, readyState, inbox)
                ELSE inbox
    /\ activeConnections' =
            IF Truthy(currentSessionId[ws])
            THEN RemoveConnection(activeConnections, currentSessionId[ws], ws)
            ELSE activeConnections
    /\ currentSessionId' = [currentSessionId EXCEPT ![ws] = Null]
    /\ userId' = [userId EXCEPT ![ws] = Null]

\* JSON.parse throws on a non-JSON payload and the catch logs it; a type that
\* matches no case falls through the switch
Dispatch(ws, data) ==
    IF ~data.json
    THEN UNCHANGED <<activeConnections, currentSessionId, userId, inbox>>
    ELSE CASE data.type = "join-session" -> JoinSession(ws, data)
           [] data.type = "editor-change" -> EditorChange(ws, data)
           [] data.type = "cursor-move" -> CursorMove(ws, data)
           [] data.type = "leave-session" -> LeaveSession(ws, data)
           [] OTHER -> UNCHANGED <<activeConnections, currentSessionId, userId, inbox>>

\* ---------------------------------------------------------------- actions
\* wss.on('connection'): a new socket, open, with both closure variables null
Connect(ws) ==
    /\ readyState[ws] = "ABSENT"
    /\ \A other \in Conns : other < ws => readyState[other] # "ABSENT"
    /\ readyState' = [readyState EXCEPT ![ws] = "OPEN"]
    /\ currentSessionId' = [currentSessionId EXCEPT ![ws] = Null]
    /\ userId' = [userId EXCEPT ![ws] = Null]
    /\ lastEvent' = [kind |-> "connection", conn |-> ws, data |-> NonJson]
    /\ UNCHANGED <<activeConnections, inbox, now>>
    /\ UNCHANGED <<dbVars, pageVars>>

\* ws.on('message'): 'message' is emitted until the socket's 'close' event
Handle(ws, data) ==
    /\ readyState[ws] \in {"OPEN", "CLOSING"}
    /\ now' = now + 1
    /\ lastEvent' = [kind |-> "message", conn |-> ws, data |-> data]
    /\ Dispatch(ws, data)
    /\ UNCHANGED readyState

OnMessage(ws, data) ==
    now < MaxEvents /\ Handle(ws, data) /\ UNCHANGED <<dbVars, pageVars>>

\* the connections whose close has begun or finished
Closing == {c \in Conns : readyState[c] \in {"CLOSING", "CLOSED"}}

\* the closing handshake has started (close frame or socket end seen by ws):
\* readyState is CLOSING until 'close' is emitted
BeginClose(ws) ==
    /\ readyState[ws] = "OPEN"
    /\ Cardinality(Closing \ {ws}) < MaxClosing
    /\ readyState' = [readyState EXCEPT ![ws] = "CLOSING"]
    /\ lastEvent' = [kind |-> "closing", conn |-> ws, data |-> NonJson]
    /\ UNCHANGED <<activeConnections, currentSessionId, userId, inbox, now>>
    /\ UNCHANGED <<dbVars, pageVars>>

\* mutant: the close handler releases the membership without announcing it
OnCloseSilent(ws) ==
    /\ readyState[ws] \in {"OPEN", "CLOSING"}
    /\ Cardinality(Closing \ {ws}) < MaxClosing
    /\ readyState' = [readyState EXCEPT ![ws] = "CLOSED"]
    /\ activeConnections' =
            IF Truthy(currentSessionId[ws]) /\ Truthy(userId[ws])
            THEN RemoveConnection(activeConnections, currentSessionId[ws], ws)
            ELSE activeConnections
    /\ now' = now + 1
    /\ lastEvent' = [kind |-> "close", conn |-> ws, data |-> NonJson]
    /\ UNCHANGED <<currentSessionId, userId, inbox>>
    /\ UNCHANGED <<dbVars, pageVars>>

\* ws.on('close'): emitted once, with readyState already CLOSED
OnClose(ws) ==
    /\ readyState[ws] \in {"OPEN", "CLOSING"}
    /\ Cardinality(Closing \ {ws}) < MaxClosing
    /\ readyState' = [readyState EXCEPT ![ws] = "CLOSED"]
    /\ IF Truthy(currentSessionId[ws]) /\ Truthy(userId[ws])
       THEN LET removed == RemoveConnection(activeConnections,
                                            currentSessionId[ws], ws)
            IN  /\ activeConnections' = removed
                /\ inbox' = Broadcast(removed, currentSessionId[ws],
                                      ParticipantLeft(userId[ws]), ws,
                                      readyState', inbox)
       ELSE UNCHANGED <<activeConnections, inbox>>
    /\ now' = now + 1
    /\ lastEvent' = [kind |-> "close", conn |-> ws, data |-> NonJson]
    /\ UNCHANGED <<currentSessionId, userId>>
    /\ UNCHANGED <<dbVars, pageVars>>

Next ==
    \/ \E ws \in Conns : Connect(ws)
    \/ \E ws \in Conns : \E data \in Frames(ws) : OnMessage(ws, data)
    \/ \E ws \in Conns : BeginClose(ws)
    \/ \E ws \in Conns : OnClose(ws)

Spec == Init /\ [][Next]_vars

\* ------------------------------------------------------- a populated room
\* The state Spec reaches when every connection has connected and sent
\* join-session for "s1" under its own user id, in the order 1, 2, ...:
\* the k-th join is handled at time k - 1 and is announced to connections 1..k-1
InitRoom ==
    /\ activeConnections = [k \in {"s1"} |-> [i \in 1..Cardinality(Conns) |-> i]]
    /\ currentSessionId = [c \in Conns |-> "s1"]
    /\ userId = [c \in Conns |-> UserIdOf(c)]
    /\ readyState = [c \in Conns |-> "OPEN"]
    /\ inbox = [c \in Conns |->
                    [j \in 1..(Cardinality(Conns) - c) |->
                        [type |-> "participant-joined", userId |-> UserIdOf(c + j),
                         timestamp |-> c + j - 1]]]
    /\ now = Cardinality(Conns)
    /\ lastEvent = [kind |-> "init", conn |-> 0, data |-> NonJson]
    /\ InitDb
    /\ InitPages

RoomMessage(ws, data) ==
    /\ now < Cardinality(Conns) + MaxRoomEvents
    /\ Handle(ws, data)
    /\ UNCHANGED <<dbVars, pageVars>>

NextRoom ==
    \/ \E ws \in Conns : \E data \in Frames(ws) : RoomMessage(ws, data)
    \/ \E ws \in Conns : BeginClose(ws)
    \/ \E ws \in Conns : OnClose(ws)

SpecRoom == InitRoom /\ [][NextRoom]_vars

\* The state Spec reaches when connections 1 and 2 have joined "s1" and then
\* connection 3 has joined "s2", each under its own user id: connection 1 was
\* told of connection 2, and connection 3 found its session empty
InitMove ==
    /\ activeConnections = [k \in SessionIds |->
                                IF k = "s1" THEN <<1, 2>> ELSE <<3>>]
    /\ currentSessionId = [c \in Conns |-> IF c = 3 THEN "s2" ELSE "s1"]
    /\ userId = [c \in Conns |-> UserIdOf(c)]
    /\ readyState = [c \in Conns |-> "OPEN"]
    /\ inbox = [c \in Conns |->
                    IF c = 1
                    THEN <<[type |-> "participant-joined", userId |-> UserIdOf(2),
                            timestamp |-> 1]>>
                    ELSE <<>>]
    /\ now = Cardinality(Conns)
    /\ lastEvent = [kind |-> "init", conn |-> 0, data |-> NonJson]
    /\ InitDb
    /\ InitPages

SpecMove == InitMove /\ [][NextRoom]_vars

\* ======================================================= snapshot engine
\* ------------------------------------------ req.body.diff.files, as sent
\* A JavaScript value in the place of diff.files: absent, an object whose
\* properties are path -> content, or an array of {path, content} items.
NoFiles == [kind |-> "undefined", props |-> <<>>, items |-> <<>>]

\* {}
EmptyObject == [kind |-> "object", props |-> <<>>, items |-> <<>>]

FilesObject(props) == [kind |-> "object", props |-> props, items |-> <<>>]

FilesArray(items) == [kind |-> "array", props |-> <<>>, items |-> items]

\* the File Sets the page submits: filesObject built from currentFileContent
FileSets ==
    {FilesObject(props) :
        props \in UNION {[S -> Contents] :
                            S \in {{}, {"a.ts"}}}}
    \cup {FilesObject(props) :
        props \in {f \in UNION {[S -> Contents] :
                                    S \in {{"b.ts"}, {"a.ts", "b.ts"}}} :
                        f["b.ts"] = <<"x", "\n", "y">>}}

\* what the older page submits: Object.entries(currentFileContent).map(...)
LegacyFiles ==
    {FilesArray(<<>>),
     FilesArray(<<[path |-> "a.ts", content |-> <<"x", "\n", "y">>]>>)}

SubmittedFiles == FileSets \cup LegacyFiles \cup {NoFiles}

\* ----------------------------------------------------- JavaScript helpers
\* content.split('\n').length
SplitLength(content) ==
    Cardinality({i \in 1..Len(content) : content[i] = "\n"}) + 1

Abs(n) == IF n < 0 THEN -n ELSE n

\* the property names of an array are its indices
IndexKeys == <<"0", "1", "2">>

\* Object.keys(value), in property order
ObjectKeys(value) ==
    IF value.kind = "array"
    THEN SubSeq(IndexKeys, 1, Len(value.items))
    ELSE SelectSeq(Paths, LAMBDA p : p \in DOMAIN value.props)

\* value[key] is a string
StringAt(value, key) == value.kind = "object" /\ key \in DOMAIN value.props

\* value[key] is truthy: a non-empty string or an array item
TruthyAt(value, key) ==
    IF value.kind = "array"
    THEN \E i \in 1..Len(value.items) : IndexKeys[i] = key
    ELSE key \in DOMAIN value.props /\ value.props[key] # <<>>

\* req.body.diff?.files || {}
FilesOrEmpty(value) == IF value.kind = "undefined" THEN EmptyObject ELSE value

\* (content as string).split('\n') on an array item: not a function
SplitThrows(filesData) == filesData.kind = "array" /\ Len(filesData.items) > 0

\* prevFiles[path] || '' and its line count
PrevLines(prevFiles, path) ==
    IF StringAt(prevFiles, path)
    THEN SplitLength(prevFiles.props[path])
    ELSE SplitLength(<<>>)

\* for (const [path, content] of Object.entries(filesData))
RECURSIVE CompareLoop(_, _, _, _, _)
CompareLoop(filesData, prevFiles, keys, i, linesChanged) ==
    IF i > Len(keys) THEN linesChanged
    ELSE LET currentLines == SplitLength(filesData.props[keys[i]])
             prevLines == PrevLines(prevFiles, keys[i])
         IN  CompareLoop(filesData, prevFiles, keys, i + 1,
                         linesChanged + Abs(currentLines - prevLines))

\* for (const [path, content] of Object.entries(prevFiles)) if (!filesData[path])
RECURSIVE RemovedLoop(_, _, _, _, _)
RemovedLoop(filesData, prevFiles, keys, i, linesChanged) ==
    IF i > Len(keys) THEN linesChanged
    ELSE RemovedLoop(filesData, prevFiles, keys, i + 1,
            IF ~TruthyAt(filesData, keys[i])
            THEN linesChanged
                    + (IF StringAt(prevFiles, keys[i])
                       THEN SplitLength(prevFiles.props[keys[i]])
                       ELSE 0)
            ELSE linesChanged)

\* mutant: only the first file is counted
ReduceLinesFirstOnly(filesData, keys, i, sum) ==
    IF Len(keys) = 0 THEN 0 ELSE SplitLength(filesData.props[keys[1]])

\* Object.values(filesData).reduce(...): the first snapshot of a session
RECURSIVE ReduceLines(_, _, _, _)
ReduceLines(filesData, keys, i, sum) ==
    IF i > Len(keys) THEN sum
    ELSE ReduceLines(filesData, keys, i + 1,
            sum + (IF StringAt(filesData, keys[i])
                   THEN SplitLength(filesData.props[keys[i]])
                   ELSE 0))

\* mutant: the paths of the project, whether or not the new files hold them
FilesModifiedAll(filesData) == Paths

\* const filesModified = Object.keys(filesData)
FilesModified(filesData) == ObjectKeys(filesData)

\* mutant: a capture without a previous snapshot is diffed against no files
LinesChangedAlwaysDelta(filesData, hasPrevious, prevFiles) ==
    RemovedLoop(filesData, prevFiles, ObjectKeys(prevFiles), 1,
        CompareLoop(filesData, prevFiles, ObjectKeys(filesData), 1, 0))

\* linesChanged as the handler computes it: hasPrevious says whether the query
\* returned a row, prevFiles is that row's diff.files
LinesChanged(filesData, hasPrevious, prevFiles) ==
    IF hasPrevious
    THEN RemovedLoop(filesData, prevFiles, ObjectKeys(prevFiles), 1,
            CompareLoop(filesData, prevFiles, ObjectKeys(filesData), 1, 0))
    ELSE ReduceLines(filesData, ObjectKeys(filesData), 1, 0)

\* ------------------------------------- POST /api/sessions/:id/snapshots
\* db.select().from(snapshots).where(sessionId).orderBy(desc(timestamp)).limit(1):
\* the position of the newest row of the session, 0 when it has none
PreviousSnapshot(rows, sessionId) ==
    LET mine == {i \in 1..Len(rows) : rows[i].sessionId = sessionId}
    IN  IF mine = {} THEN 0 ELSE CHOOSE i \in mine : \A j \in mine : j <= i

\* the row storage.createSnapshot inserts; previousId records, as history, the
\* row the diff was computed against (0: none)
SnapshotRow(id, sessionId, body, filesData, linesChanged, previousId, t) ==
    [id |-> id, sessionId |-> sessionId, authorId |-> body.authorId,
     timestamp |-> t, description |-> body.description,
     diff |-> [files |-> filesData,
               metadata |-> [linesChanged |-> linesChanged,
                             filesModified |-> FilesModified(filesData)]],
     previousId |-> previousId]

\* mutant: the message names the snapshot before the inserted one
SnapshotCreatedStaleId(row, body) ==
    [type |-> "snapshot-created", snapshotId |-> row.id - 1,
     sessionId |-> row.sessionId, timestamp |-> row.timestamp,
     author |-> body.authorId, description |-> row.description,
     metadata |-> row.diff.metadata]

SnapshotCreated(row, body) ==
    [type |-> "snapshot-created", snapshotId |-> row.id,
     sessionId |-> row.sessionId, timestamp |-> row.timestamp,
     author |-> body.authorId, description |-> row.description,
     metadata |-> row.diff.metadata]

\* mutant: the insert overwrites the newest row
InsertSnapshotOverNewest(rows, row) ==
    IF rows = <<>> THEN <<row>> ELSE [rows EXCEPT ![Len(rows)] = row]

\* storage.createSnapshot: db.insert(snapshots).values(...).returning()
InsertSnapshot(rows, row) == Append(rows, row)

\* the bodies a page posts
Bodies ==
    [authorId : {currentUserId}, description : Descriptions,
     files : SubmittedFiles]

\* the handler up to the result of its query: filesData is taken from the body
\* and the newest snapshot of the session is read
PostSnapshot(r, sessionId, body) ==
    /\ requests[r].pc = "new"
    /\ \A q \in ReqIds : q < r => requests[q].pc # "new"
    /\ requests' = [requests EXCEPT ![r] =
            [pc |-> "queried", sessionId |-> sessionId, body |-> body,
             previous |-> PreviousSnapshot(snapshots, sessionId)]]
    /\ now' = now + 1
    /\ lastEvent' = [kind |-> "post", conn |-> r, data |-> NonJson]
    /\ UNCHANGED <<activeConnections, currentSessionId, userId, readyState,
                   inbox, snapshots>>
    /\ UNCHANGED <<tableVars, pageVars>>

\* the rest of the handler: the diff against the row read, the insert, the
\* snapshot-created broadcast and the 201; a TypeError ends it with a 400
CreateSnapshot(r) ==
    /\ requests[r].pc = "queried"
    /\ LET req == requests[r]
           filesData == FilesOrEmpty(req.body.files)
           hasPrevious == req.previous # 0
           prevFiles == IF hasPrevious
                        THEN snapshots[req.previous].diff.files
                        ELSE EmptyObject
       IN  IF hasPrevious /\ SplitThrows(filesData)
           THEN /\ requests' = [requests EXCEPT ![r] =
                                    [pc |-> "done", status |-> 400]]
                /\ UNCHANGED <<snapshots, inbox>>
           ELSE LET row == SnapshotRow(Len(snapshots) + 1, req.sessionId,
                                req.body, filesData,
                                LinesChanged(filesData, hasPrevious, prevFiles),
                                req.previous, now)
                IN  /\ snapshots' = InsertSnapshot(snapshots, row)
                    /\ inbox' = Broadcast(activeConnections, req.sessionId,
                                          SnapshotCreated(row, req.body), 0,
                                          readyState, inbox)
                    /\ requests' = [requests EXCEPT ![r] =
                                        [pc |-> "done", status |-> 201]]
    /\ now' = now + 1
    /\ lastEvent' = [kind |-> "created", conn |-> r, data |-> NonJson]
    /\ UNCHANGED <<activeConnections, currentSessionId, userId, readyState>>
    /\ UNCHANGED <<tableVars, pageVars>>

NextSnap ==
    \/ \E r \in ReqIds : \E sessionId \in SessionIds : \E body \in Bodies :
            PostSnapshot(r, sessionId, body)
    \/ \E r \in ReqIds : CreateSnapshot(r)

\* the server with every connection joined to "s1" and an empty table
SpecSnap == InitRoom /\ [][NextSnap]_vars

\* the state SpecRoom reaches when connection 3 has begun its closing handshake
\* and 'close' has not been emitted yet: it is still in the group of "s1"
InitNotify ==
    /\ activeConnections = [k \in {"s1"} |-> [i \in 1..Cardinality(Conns) |-> i]]
    /\ currentSessionId = [c \in Conns |-> "s1"]
    /\ userId = [c \in Conns |-> UserIdOf(c)]
    /\ readyState = [c \in Conns |-> IF c = 3 THEN "CLOSING" ELSE "OPEN"]
    /\ inbox = [c \in Conns |->
                    [j \in 1..(Cardinality(Conns) - c) |->
                        [type |-> "participant-joined", userId |-> UserIdOf(c + j),
                         timestamp |-> c + j - 1]]]
    /\ now = Cardinality(Conns)
    /\ lastEvent = [kind |-> "closing", conn |-> 3, data |-> NonJson]
    /\ InitDb
    /\ InitPages

\* the handler on a server one of whose group members is closing
SpecNotify == InitNotify /\ [][NextSnap]_vars

\* ========================================================= the session page
\* the state Spec reaches when every page has opened its socket and sent
\* join-session for "s1" (socket.onopen): every page signs in as currentUserId
InitEdit ==
    /\ activeConnections = [k \in {"s1"} |-> [i \in 1..Cardinality(Conns) |-> i]]
    /\ currentSessionId = [c \in Conns |-> "s1"]
    /\ userId = [c \in Conns |-> currentUserId]
    /\ readyState = [c \in Conns |-> "OPEN"]
    /\ inbox = [c \in Conns |->
                    [j \in 1..(Cardinality(Conns) - c) |->
                        [type |-> "participant-joined", userId |-> currentUserId,
                         timestamp |-> c + j - 1]]]
    /\ now = Cardinality(Conns)
    /\ lastEvent = [kind |-> "init", conn |-> 0, data |-> NonJson]
    /\ InitDb
    /\ currentFileContent = [c \in Conns |-> [p \in FilePaths |-> Undefined]]
    /\ outbox = [c \in Conns |-> <<>>]
    /\ delivered = [c \in Conns |-> Len(inbox[c])]
    /\ InitView
    /\ InitTimers
    /\ ReplayMounted(1)

\* the editor-change frames sent so far: those in flight and those handled
RECURSIVE InFlight(_)
InFlight(S) ==
    IF S = {} THEN 0
    ELSE LET c == CHOOSE x \in S : TRUE IN Len(outbox[c]) + InFlight(S \ {c})

\* handleCodeChange(code, filePath): the page shows the code and sends it
HandleCodeChange(c, code, filePath) ==
    /\ InFlight(Conns) + now - Cardinality(Conns) < MaxEdits
    /\ currentFileContent' =
            [currentFileContent EXCEPT ![c] = [@ EXCEPT ![filePath] = code]]
    /\ outbox' = IF readyState[c] = "OPEN"
                 THEN [outbox EXCEPT ![c] =
                        Append(@, Frame("editor-change", "s1", Undefined, code,
                                        Undefined, filePath))]
                 ELSE outbox
    /\ UNCHANGED <<activeConnections, currentSessionId, userId, readyState,
                   inbox, now, lastEvent, delivered>>
    /\ UNCHANGED <<dbVars, viewVars, saveVars, replayVars>>

\* the server's 'message' callback for the oldest frame a page has in flight
ServerReceive(c) ==
    /\ outbox[c] # <<>>
    /\ Handle(c, Head(outbox[c]))
    /\ outbox' = [outbox EXCEPT ![c] = Tail(@)]
    /\ UNCHANGED <<currentFileContent, delivered>>
    /\ UNCHANGED <<dbVars, viewVars, saveVars, replayVars>>

\* socket.onmessage: an editor-change of another user replaces the file's code
ApplyMessage(content, message) ==
    IF message.type = "editor-change" /\ message.userId # currentUserId
    THEN [content EXCEPT ![message.filePath] = message.code]
    ELSE content

SocketOnMessage(c) ==
    /\ delivered[c] < Len(inbox[c])
    /\ currentFileContent' =
            [currentFileContent EXCEPT ![c] =
                ApplyMessage(@, inbox[c][delivered[c] + 1])]
    /\ delivered' = [delivered EXCEPT ![c] = @ + 1]
    /\ UNCHANGED <<activeConnections, currentSessionId, userId, readyState,
                   inbox, now, lastEvent, outbox>>
    /\ UNCHANGED <<dbVars, viewVars, saveVars, replayVars>>

NextEdit ==
    \/ \E c \in Conns : \E filePath \in FilePaths :
            HandleCodeChange(c, CodeOf(c), filePath)
    \/ \E c \in Conns : ServerReceive(c)
    \/ \E c \in Conns : SocketOnMessage(c)

SpecEdit == InitEdit /\ [][NextEdit]_vars

\* ===================================================== the snapshot view
\* the pages whose snapshot view is followed
Viewers == {1}

\* the diff.files a capture may carry here: both shapes, empty and not, or none
ViewFiles ==
    {NoFiles, EmptyObject, FilesArray(<<>>),
     FilesObject([p \in {"a.ts"} |-> <<"x", "\n", "y">>]),
     FilesArray(<<[path |-> "a.ts", content |-> <<"x", "\n", "y">>]>>)}

ViewBodies ==
    [authorId : {currentUserId}, description : Descriptions, files : ViewFiles]

\* what a save or an edit writes
Saved == <<"z">>

\* mutant: only the legacy sequence is read
NormalizeLegacyOnly(diffFiles) ==
    IF diffFiles.kind = "array"
    THEN [i \in 1..Len(diffFiles.items) |->
            FileNode(BaseName(diffFiles.items[i].path), diffFiles.items[i].path,
                     diffFiles.items[i].content)]
    ELSE <<>>

\* mutant: a mapping without entries yields a placeholder node
NormalizeNeverEmpty(diffFiles) ==
    IF diffFiles.kind = "array"
    THEN [i \in 1..Len(diffFiles.items) |->
            FileNode(BaseName(diffFiles.items[i].path), diffFiles.items[i].path,
                     diffFiles.items[i].content)]
    ELSE IF diffFiles.kind = "object" /\ ObjectKeys(diffFiles) # <<>>
    THEN LET keys == ObjectKeys(diffFiles)
         IN  [i \in 1..Len(keys) |->
                FileNode(BaseName(keys[i]), keys[i], diffFiles.props[keys[i]])]
    ELSE <<FileNode("untitled", "untitled", <<>>)>>

\* filesFromSnapshot: the nodes handleRestoreSnapshot builds from diff.files
Normalize(diffFiles) ==
    IF diffFiles.kind = "array"
    THEN [i \in 1..Len(diffFiles.items) |->
            FileNode(BaseName(diffFiles.items[i].path), diffFiles.items[i].path,
                     diffFiles.items[i].content)]
    ELSE IF diffFiles.kind = "object"
    THEN LET keys == ObjectKeys(diffFiles)
         IN  [i \in 1..Len(keys) |->
                FileNode(BaseName(keys[i]), keys[i], diffFiles.props[keys[i]])]
    ELSE <<>>

\* files?.map(f => ({name: f.name, path: f.path, ...})) || []: the rows of the
\* files table have no name column
LiveFiles(data) ==
    IF data = Undefined THEN <<>>
    ELSE [i \in 1..Len(data) |->
            FileNode(Undefined, data[i].path, data[i].content)]

\* the initialFiles prop SessionEditor is rendered with
InitialFiles(c) ==
    IF isViewingSnapshot[c] THEN snapshotFiles[c] ELSE LiveFiles(filesQuery[c])

\* the readOnly prop, passed on to the Monaco editor's options
ReadOnly(c) == isViewingSnapshot[c]

\* what a page callback leaves alone on the server
ServerUntouched ==
    UNCHANGED <<activeConnections, currentSessionId, userId, readyState, inbox,
                snapshots, requests, sessions>>

\* the callbacks the capture requests 1..r have had: one up to the query, one
\* for the rest
RECURSIVE CaptureSteps(_)
CaptureSteps(r) ==
    IF r = 0 THEN 0
    ELSE CaptureSteps(r - 1)
            + (CASE requests[r].pc = "new" -> 0
                 [] requests[r].pc = "queried" -> 1
                 [] OTHER -> 2)

\* a callback of the page or of the files route runs, while fewer than
\* MaxViewEvents of them have
ViewRan(kind, c, arg) ==
    /\ now - Cardinality(Conns) - CaptureSteps(MaxPosts) < MaxViewEvents
    /\ now' = now + 1
    /\ lastEvent' = [kind |-> kind, conn |-> c,
                     data |-> [json |-> FALSE, arg |-> arg]]
    /\ UNCHANGED replayVars

\* handleRestoreSnapshot(snapshotId), with the GET /api/snapshots/:id it makes
HandleRestoreSnapshot(c, snapshotId) ==
    /\ ViewRan("restore", c, snapshotId)
    /\ LET ok == snapshotId \in 1..Len(snapshots)
           filesFromSnapshot ==
                IF ok THEN Normalize(snapshots[snapshotId].diff.files) ELSE <<>>
       IN  IF ok /\ Len(filesFromSnapshot) > 0
           THEN /\ snapshotFiles' = [snapshotFiles EXCEPT ![c] = filesFromSnapshot]
                /\ isViewingSnapshot' = [isViewingSnapshot EXCEPT ![c] = TRUE]
                /\ currentSnapshotId' =
                        [currentSnapshotId EXCEPT ![c] = snapshotId]
                /\ toast' = [toast EXCEPT ![c] =
                        [variant |-> "default", title |-> "Snapshot loaded"]]
           ELSE /\ toast' = [toast EXCEPT ![c] =
                        [variant |-> "destructive", title |-> "Error"]]
                /\ UNCHANGED <<snapshotFiles, isViewingSnapshot,
                               currentSnapshotId>>
    /\ ServerUntouched
    /\ UNCHANGED <<projectFiles, comments, currentFileContent, outbox,
                   delivered, filesQuery, filesFetch, editorFiles, saveVars>>

\* handleBackToLive up to its await: the "Back to Live" button is part of the
\* banner shown while a snapshot is viewed
HandleBackToLive(c) ==
    /\ isViewingSnapshot[c]
    /\ ViewRan("back-to-live", c, 0)
    /\ isViewingSnapshot' = [isViewingSnapshot EXCEPT ![c] = FALSE]
    /\ snapshotFiles' = [snapshotFiles EXCEPT ![c] = <<>>]
    /\ currentSnapshotId' = [currentSnapshotId EXCEPT ![c] = NoSnapshot]
    /\ filesFetch' = [filesFetch EXCEPT ![c] = "refetch"]
    /\ ServerUntouched
    /\ UNCHANGED <<projectFiles, comments, currentFileContent, outbox,
                   delivered, filesQuery, editorFiles, toast, saveVars>>

\* GET /api/projects/:id/files answers the page: the first load of the query,
\* or the refetch handleBackToLive awaits, after which it shows its toast
FilesFetched(c) ==
    /\ filesFetch[c] # "idle"
    /\ ViewRan("fetched", c, 0)
    /\ filesQuery' = [filesQuery EXCEPT ![c] = projectFiles]
    /\ filesFetch' = [filesFetch EXCEPT ![c] = "idle"]
    /\ toast' = IF filesFetch[c] = "refetch"
                THEN [toast EXCEPT ![c] = [variant |-> "default",
                                           title |-> "Back to live editing"]]
                ELSE toast
    /\ ServerUntouched
    /\ UNCHANGED <<projectFiles, comments, currentFileContent, outbox,
                   delivered, isViewingSnapshot, snapshotFiles,
                   currentSnapshotId, editorFiles, saveVars>>

\* onSelectSnapshot={setCurrentSnapshotId}; the effect that selects the newest
\* snapshot when none is selected sets one of the same values
SelectSnapshot(c, snapshotId) ==
    /\ snapshotId \in 1..Len(snapshots)
    /\ ViewRan("select", c, snapshotId)
    /\ currentSnapshotId' = [currentSnapshotId EXCEPT ![c] = snapshotId]
    /\ ServerUntouched
    /\ UNCHANGED <<projectFiles, comments, currentFileContent, outbox,
                   delivered, isViewingSnapshot, snapshotFiles, filesQuery,
                   filesFetch, editorFiles, toast, saveVars>>

\* handleAddComment: createCommentMutation and the POST .../comments it makes
HandleAddComment(c) ==
    /\ Len(comments) < MaxComments
    /\ ViewRan("comment", c, 0)
    /\ IF currentSnapshotId[c] = NoSnapshot
       THEN UNCHANGED <<comments, toast>>
       ELSE /\ comments' = Append(comments,
                    [id |-> Len(comments) + 1, sessionId |-> "s1",
                     authorId |-> currentUserId,
                     snapshotId |-> currentSnapshotId[c]])
            /\ toast' = [toast EXCEPT ![c] =
                    [variant |-> "default", title |-> "Comment added"]]
    /\ ServerUntouched
    /\ UNCHANGED <<projectFiles, currentFileContent, outbox, delivered,
                   isViewingSnapshot, snapshotFiles, currentSnapshotId,
                   filesQuery, filesFetch, editorFiles, saveVars>>

\* {...prev, [filePath]: code}
WithCode(prev, filePath, code) ==
    [p \in DOMAIN prev \cup {filePath} |->
        IF p = filePath THEN code ELSE prev[p]]

\* files?.find(f => f.path === filePath): the rows of the loaded list with the
\* path, in the list's order
FindFile(data, filePath) == SelectSeq(data, LAMBDA f : f.path = filePath)

\* the rows files?.find looks through: none while the query has no data
LoadedFiles(c) == IF filesQuery[c] = Undefined THEN <<>> ELSE filesQuery[c]

\* clearTimeout(saveTimerRef.current[filePath]), when the ref holds an id
ClearTimeout(set, ref, filePath) ==
    IF filePath \in DOMAIN ref
    THEN {t \in set : t.id # ref[filePath]}
    ELSE set

\* the timer handleCodeChange sets: what its callback will send, and for which
\* path it was set
SaveTimer(id, file, code, filePath) ==
    [id |-> id, filePath |-> filePath, fileId |-> file.id, content |-> code]

\* SessionEditor's handleEditorChange(value) on the file it opened at mount,
\* and the onCodeChange it calls; a read-only Monaco editor takes no input
HandleEditorChange(c, value) ==
    /\ ~ReadOnly(c)
    /\ ViewRan("edit", c, 0)
    /\ editorFiles' = [editorFiles EXCEPT ![c] =
            [i \in 1..Len(@) |->
                IF @[i].path = @[1].path
                THEN [@[i] EXCEPT !.content = value] ELSE @[i]]]
    /\ currentFileContent' = [currentFileContent EXCEPT ![c] =
            WithCode(@, editorFiles[c][1].path, value)]
    /\ outbox' = IF readyState[c] = "OPEN"
                 THEN [outbox EXCEPT ![c] =
                        Append(@, Frame("editor-change", "s1", Undefined, value,
                                        Undefined, editorFiles[c][1].path))]
                 ELSE outbox
    /\ LET filePath == editorFiles[c][1].path
           found == FindFile(LoadedFiles(c), filePath)
       IN  IF found = <<>>
           THEN UNCHANGED saveVars
           ELSE /\ timers' = [timers EXCEPT ![c] =
                        ClearTimeout(@, saveTimerRef[c], filePath)
                            \cup {SaveTimer(now + 1, found[1], value, filePath)}]
                /\ saveTimerRef' = [saveTimerRef EXCEPT ![c] =
                        WithCode(@, filePath, now + 1)]
    /\ ServerUntouched
    /\ UNCHANGED <<projectFiles, comments, delivered, isViewingSnapshot,
                   snapshotFiles, currentSnapshotId, filesQuery, filesFetch,
                   toast>>

\* storage.updateFileContent(id, content)
UpdateFileContent(rows, id, content) ==
    SubSeq([i \in 1..Len(rows) |->
                IF rows[i].id = id THEN [rows[i] EXCEPT !.content = content]
                ELSE rows[i]],
           1, Len(rows))

\* the bodies of PATCH /api/files/:id: with the content, or without one
FileBodies == {[content |-> Saved], [text |-> Saved]}

\* PATCH /api/files/:id, from the save timer of any participant's page
PatchFile(id, body) ==
    /\ ViewRan("saved", 0, id)
    /\ projectFiles' = IF "content" \notin DOMAIN body
                       THEN projectFiles
                       ELSE UpdateFileContent(projectFiles, id, body.content)
    /\ ServerUntouched
    /\ UNCHANGED <<comments, pageVars>>

\* a save timer of page c fires: updateFileMutation.mutate and the PATCH
\* /api/files/:id it makes; the fired timer's id stays in saveTimerRef
SaveTimerFires(c) ==
    \E t \in timers[c] :
        /\ timers' = [timers EXCEPT ![c] = @ \ {t}]
        /\ projectFiles' = UpdateFileContent(projectFiles, t.fileId, t.content)
        /\ lastEvent' = [kind |-> "save", conn |-> c,
                         data |-> [json |-> FALSE, arg |-> t.id]]
        /\ ServerUntouched
        /\ UNCHANGED <<now, comments, currentFileContent, outbox, delivered,
                       viewVars, saveTimerRef, replayVars>>

\* the captures made while the view is followed: the first two requests
ViewReqs == {1, 2}

\* a capture, from a page of either generation
ViewCapture ==
    \/ \E r \in ViewReqs : \E body \in ViewBodies : PostSnapshot(r, "s1", body)
    \/ \E r \in ViewReqs : CreateSnapshot(r)

NextView ==
    \/ ViewCapture
    \/ \E c \in Viewers : \E snapshotId \in ViewReqs :
            HandleRestoreSnapshot(c, snapshotId)
    \/ \E c \in Viewers : HandleBackToLive(c)
    \/ \E c \in Viewers : FilesFetched(c)
    \/ \E c \in Viewers : \E snapshotId \in ViewReqs :
            SelectSnapshot(c, snapshotId)
    \/ \E c \in Viewers : HandleAddComment(c)
    \/ \E c \in Viewers : HandleEditorChange(c, Saved)
    \/ \E body \in FileBodies : PatchFile(1, body)

\* the page of connection 1 in a session every connection has joined
SpecView == InitRoom /\ [][NextView]_vars

\* ------------------------------------------------------------ saved edits
\* the files table of a project that holds the starter file
StarterFiles == <<[id |-> 1, path |-> "main.ts", content |-> <<"x", "\n", "y">>]>>

\* what the user types: two texts, one after the other or the same twice
Typed == {<<"z">>, <<"z", "z">>}

\* the room of InitRoom, in a project whose files table is StarterFiles
InitSave ==
    /\ activeConnections = [k \in {"s1"} |-> [i \in 1..Cardinality(Conns) |-> i]]
    /\ currentSessionId = [c \in Conns |-> "s1"]
    /\ userId = [c \in Conns |-> UserIdOf(c)]
    /\ readyState = [c \in Conns |-> "OPEN"]
    /\ inbox = [c \in Conns |->
                    [j \in 1..(Cardinality(Conns) - c) |->
                        [type |-> "participant-joined", userId |-> UserIdOf(c + j),
                         timestamp |-> c + j - 1]]]
    /\ now = Cardinality(Conns)
    /\ lastEvent = [kind |-> "init", conn |-> 0, data |-> NonJson]
    /\ snapshots = <<>>
    /\ requests = [r \in ReqIds |-> [pc |-> "new"]]
    /\ sessions = <<>>
    /\ projectFiles = StarterFiles
    /\ comments = <<>>
    /\ InitPages

NextSave ==
    \/ ViewCapture
    \/ \E c \in Viewers : \E snapshotId \in ViewReqs :
            HandleRestoreSnapshot(c, snapshotId)
    \/ \E c \in Viewers : HandleBackToLive(c)
    \/ \E c \in Viewers : FilesFetched(c)
    \/ \E c \in Viewers : \E value \in Typed : HandleEditorChange(c, value)
    \/ \E c \in Viewers : SaveTimerFires(c)

\* the page of connection 1 and its save timers
SpecSave == InitSave /\ [][NextSave]_vars

\* ========================================================= session replay
\* the placeholder text "// No content"
NoContent == <<"// No content">>

\* snapshotDiff?.files?.[0]?.content || "// No content": element 0 of an array
\* is its first item; a path->content mapping has no property "0" unless a file
\* is so named, and then the property is a string, whose .content is undefined
FileContent(diffFiles) ==
    IF diffFiles.kind = "array" /\ Len(diffFiles.items) > 0
            /\ diffFiles.items[1].content # <<>>
    THEN diffFiles.items[1].content
    ELSE NoContent


\* ------------------------------------------------------- replay controls
\* the longest snapshot list replayed
MaxReplay == 4

\* the speeds of the three speed buttons
Speeds == {"0.5", "1", "2"}

\* mutant: playing goes on at the last snapshot
UseEffectPastEnd(playing, index, length) ==
    IF ~playing \/ index > length - 1 THEN FALSE ELSE playing

\* the effect that runs after every render whose isPlaying, currentIndex,
\* snapshots.length or playbackSpeed changed: isPlaying after it; the interval
\* is set exactly when it leaves isPlaying true, and cleared at the next run
UseEffect(playing, index, length) ==
    IF ~playing \/ index >= length - 1 THEN FALSE ELSE playing

\* a callback of the replay component ran, at index currentIndex
ReplayRan(kind) ==
    /\ lastEvent' = [kind |-> kind, conn |-> 0,
                     data |-> [json |-> FALSE, arg |-> currentIndex]]
    /\ UNCHANGED <<activeConnections, currentSessionId, userId, readyState,
                   inbox, now, dbVars, currentFileContent, outbox, delivered,
                   viewVars, saveVars, snapshotsLength>>

\* the interval's callback: onIndexChange(currentIndex + 1)
Tick ==
    /\ isPlaying
    /\ ReplayRan("tick")
    /\ currentIndex' = currentIndex + 1
    /\ isPlaying' = UseEffect(isPlaying, currentIndex + 1, snapshotsLength)
    /\ UNCHANGED playbackSpeed

HandlePlayPause ==
    /\ ReplayRan("play-pause")
    /\ IF currentIndex >= snapshotsLength - 1
       THEN /\ currentIndex' = 0
            /\ isPlaying' = UseEffect(TRUE, 0, snapshotsLength)
       ELSE /\ currentIndex' = currentIndex
            /\ isPlaying' = UseEffect(~isPlaying, currentIndex, snapshotsLength)
    /\ UNCHANGED playbackSpeed

HandlePrevious ==
    /\ ReplayRan("previous")
    /\ IF currentIndex > 0
       THEN /\ currentIndex' = currentIndex - 1
            /\ isPlaying' = UseEffect(FALSE, currentIndex - 1, snapshotsLength)
       ELSE UNCHANGED <<currentIndex, isPlaying>>
    /\ UNCHANGED playbackSpeed

HandleNext ==
    /\ ReplayRan("next")
    /\ IF currentIndex < snapshotsLength - 1
       THEN /\ currentIndex' = currentIndex + 1
            /\ isPlaying' = UseEffect(FALSE, currentIndex + 1, snapshotsLength)
       ELSE UNCHANGED <<currentIndex, isPlaying>>
    /\ UNCHANGED playbackSpeed

\* the slider offers 0..snapshots.length - 1
HandleSliderChange(value) ==
    /\ value \in 0..(snapshotsLength - 1)
    /\ ReplayRan("slider")
    /\ currentIndex' = value
    /\ isPlaying' = UseEffect(FALSE, value, snapshotsLength)
    /\ UNCHANGED playbackSpeed

\* a speed button: the effect runs again with the new interval
SetPlaybackSpeed(speed) ==
    /\ ReplayRan("speed")
    /\ playbackSpeed' = speed
    /\ isPlaying' = UseEffect(isPlaying, currentIndex, snapshotsLength)
    /\ UNCHANGED currentIndex

\* the replay of a session's 1..MaxReplay snapshots, opened on the first
InitReplay ==
    /\ activeConnections = [k \in {} |-> <<>>]
    /\ currentSessionId = [c \in Conns |-> Null]
    /\ userId = [c \in Conns |-> Null]
    /\ readyState = [c \in Conns |-> "ABSENT"]
    /\ inbox = [c \in Conns |-> <<>>]
    /\ now = 0
    /\ lastEvent = [kind |-> "init", conn |-> 0, data |-> NonJson]
    /\ InitDb
    /\ currentFileContent = [c \in Conns |-> [p \in FilePaths |-> Undefined]]
    /\ outbox = [c \in Conns |-> <<>>]
    /\ delivered = [c \in Conns |-> 0]
    /\ InitView
    /\ InitTimers
    /\ \E length \in 1..MaxReplay : ReplayMounted(length)

NextReplay ==
    \/ Tick
    \/ HandlePlayPause
    \/ HandlePrevious
    \/ HandleNext
    \/ \E value \in 0..(MaxReplay - 1) : HandleSliderChange(value)
    \/ \E speed \in Speeds : SetPlaybackSpeed(speed)

SpecReplay == InitReplay /\ [][NextReplay]_vars

\* setInterval calls its callback every 2000 / playbackSpeed ms for as long as
\* the interval is set
SpecReplayFair == SpecReplay /\ WF_vars(Tick)

\* ============================================================== sessions
\* the values PATCH /api/sessions/:id/status accepts
Statuses == {"scheduled", "live", "finished", "cancelled"}

\* the status a client may put in a body: a listed one, none, or another string
SentStatuses == Statuses \cup {Undefined, "paused"}

\* the bodies of POST /api/sessions: the title is required, the status is not
SessionBodies == [title : {"review", Undefined}, status : SentStatuses]

\* insertSessionSchema.parse(body): the required columns are present; status is
\* text and optional
SessionParses(body) == body.title # Undefined

\* the row db.insert(sessions) stores: status defaults to "scheduled"
SessionRow(id, body) ==
    [id |-> id, title |-> body.title,
     status |-> IF body.status = Undefined THEN "scheduled" ELSE body.status]

\* the response of the request handled last
Responded(code, status) == [json |-> FALSE, code |-> code, status |-> status]

\* POST /api/sessions
CreateSession(body) ==
    /\ Len(sessions) < MaxSessions
    /\ IF SessionParses(body)
       THEN /\ sessions' = Append(sessions, SessionRow(Len(sessions) + 1, body))
            /\ lastEvent' = [kind |-> "session-created", conn |-> Len(sessions) + 1,
                             data |-> Responded(201, body.status)]
       ELSE /\ sessions' = sessions
            /\ lastEvent' = [kind |-> "session-created", conn |-> 0,
                             data |-> Responded(400, body.status)]
    /\ UNCHANGED <<activeConnections, currentSessionId, userId, readyState,
                   inbox, now, snapshots, requests, projectFiles, comments>>
    /\ UNCHANGED pageVars

\* storage.updateSessionStatus(id, status): update ... where id = id
UpdateSessionStatus(rows, id, status) ==
    [i \in 1..Len(rows) |->
        IF rows[i].id = id THEN [rows[i] EXCEPT !.status = status] ELSE rows[i]]

\* PATCH /api/sessions/:id/status
PatchSessionStatus(id, status) ==
    /\ IF status \notin Statuses
       THEN /\ sessions' = sessions
            /\ lastEvent' = [kind |-> "session-status", conn |-> id,
                             data |-> Responded(400, status)]
       ELSE /\ sessions' = UpdateSessionStatus(sessions, id, status)
            /\ lastEvent' = [kind |-> "session-status", conn |-> id,
                             data |-> Responded(200, status)]
    /\ UNCHANGED <<activeConnections, currentSessionId, userId, readyState,
                   inbox, now, snapshots, requests, projectFiles, comments>>
    /\ UNCHANGED pageVars

NextSession ==
    \/ \E body \in SessionBodies : CreateSession(body)
    \/ \E id \in 1..MaxSessions : \E status \in SentStatuses :
            PatchSessionStatus(id, status)

\* the session routes on a server with an empty sessions table
SpecSession == Init /\ [][NextSession]_vars

\* ================================================================ claims
\* the members of the group registered under `key` in registry `map`
GroupOf(map, key) ==
    IF key \in DOMAIN map THEN {map[key][i] : i \in 1..Len(map[key])} ELSE {}

Last(seq) == seq[Len(seq)]

\* every session a connection could name, with the absent values
Keys == SessionIds \cup {Null, Undefined}

\* the callback that has just run is the handler of a frame of the given type
FrameRan(type) ==
    /\ lastEvent'.kind = "message"
    /\ lastEvent'.data.json
    /\ lastEvent'.data.type = type

CloseRan == lastEvent'.kind = "close"

\* a connection whose transport exists: connected and 'close' not yet emitted
Live(d) == readyState[d] \in {"OPEN", "CLOSING"}

\* C1: after every join-session, leave-session or transport close, a session
\* identifier is a key of activeConnections if and only if at least one
\* connection is in its group.
C1_KeyIffGroupNonEmpty ==
    \A s \in Keys :
        (s \in DOMAIN activeConnections)
            <=> (\E ws \in Conns : ws \in GroupOf(activeConnections, s))

\* C1 witness: connections 1 and 2 joined one session and connection 1 has just
\* left it; the registry holds that session alone, with connection 2 as its only
\* member, and connection 2 has been told of the join and of the leave.
C1_Witness ==
    /\ lastEvent.kind = "message"
    /\ lastEvent.conn = 1
    /\ lastEvent.data.json
    /\ lastEvent.data.type = "leave-session"
    /\ Cardinality(DOMAIN activeConnections) = 1
    /\ \A s \in DOMAIN activeConnections : GroupOf(activeConnections, s) = {2}
    /\ Len(inbox[2]) = 2
    /\ inbox[2][1].type = "participant-joined"
    /\ inbox[2][2].type = "participant-left"

\* C5: every connection is a member of at most one session group.
C5_AtMostOneGroup ==
    \A ws \in Conns :
        Cardinality({s \in DOMAIN activeConnections :
                        ws \in GroupOf(activeConnections, s)}) <= 1

\* ---------------------------------------------------- the broadcast call
\* the session identifier the callback that has just run passed to broadcast,
\* Null when it made no call
CallSession ==
    LET ws == lastEvent'.conn
    IN  IF FrameRan("join-session")
        THEN (IF Truthy(lastEvent'.data.sessionId)
              THEN lastEvent'.data.sessionId ELSE Null)
        ELSE IF FrameRan("editor-change") \/ FrameRan("cursor-move")
                    \/ FrameRan("leave-session") \/ CloseRan
        THEN (IF Truthy(currentSessionId[ws]) THEN currentSessionId[ws] ELSE Null)
        ELSE Null

\* the members of the session's group at the moment of that call: join adds the
\* caller before it broadcasts and close removes it before, leave removes it after
CallGroup ==
    IF FrameRan("join-session") \/ CloseRan
    THEN GroupOf(activeConnections', CallSession)
    ELSE GroupOf(activeConnections, CallSession)

\* connection d has been sent exactly one more message, message m
Received(d, m) == inbox'[d] = Append(inbox[d], m)

\* the type of the message that call carries
CallType ==
    IF FrameRan("join-session") THEN "participant-joined"
    ELSE IF FrameRan("editor-change") THEN "editor-change"
    ELSE IF FrameRan("cursor-move") THEN "cursor-move"
    ELSE "participant-left"

\* connection d has been sent exactly one more message, the one of that call
Delivered(d) ==
    /\ Len(inbox'[d]) = Len(inbox[d]) + 1
    /\ Received(d, Last(inbox'[d]))
    /\ Last(inbox'[d]).type = CallType
    /\ Last(inbox'[d]).timestamp = now

\* C2 as stated: broadcast(sessionId, m, exclude) never delivers m to exclude and
\* delivers m to every other connection that is a member of the session's group
\* at the moment of the call.
C2_Original ==
    [][CallSession # Null =>
        /\ inbox'[lastEvent'.conn] = inbox[lastEvent'.conn]
        /\ \A d \in CallGroup \ {lastEvent'.conn} :
              /\ Delivered(d)
              /\ \A e \in CallGroup \ {lastEvent'.conn} :
                    Last(inbox'[e]) = Last(inbox'[d])]_vars

\* C2 amended: broadcast never delivers m to exclude and delivers the same m,
\* once, to every other member of the group at the moment of the call whose
\* socket is OPEN.
C2_BroadcastToOpenMembers ==
    [][CallSession # Null =>
        /\ inbox'[lastEvent'.conn] = inbox[lastEvent'.conn]
        /\ \A d \in CallGroup \ {lastEvent'.conn} :
              readyState[d] = "OPEN" =>
                  /\ Delivered(d)
                  /\ \A e \in CallGroup \ {lastEvent'.conn} :
                        readyState[e] = "OPEN" =>
                            Last(inbox'[e]) = Last(inbox'[d])]_vars

\* C2 witness: an editor-change has just been broadcast in a group of three; the
\* two other members hold it as their newest message and the sender does not.
C2_Witness ==
    /\ lastEvent.kind = "message"
    /\ lastEvent.data.json
    /\ lastEvent.data.type = "editor-change"
    /\ \E s \in DOMAIN activeConnections :
        /\ lastEvent.conn \in GroupOf(activeConnections, s)
        /\ Cardinality(GroupOf(activeConnections, s)) = 3
        /\ \A d \in GroupOf(activeConnections, s) \ {lastEvent.conn} :
              /\ Len(inbox[d]) > 0
              /\ Last(inbox[d]).type = "editor-change"
              /\ Last(inbox[d]).timestamp = now - 1
        /\ \A i \in 1..Len(inbox[lastEvent.conn]) :
              inbox[lastEvent.conn][i].type # "editor-change"

\* ------------------------------------------------------------ join-session
\* the participant-joined a join-session frame announces at time t
JoinedNote(data, t) ==
    [type |-> "participant-joined",
     userId |-> IF data.userId = Undefined THEN "anonymous" ELSE data.userId,
     timestamp |-> t]

\* C3 as stated: when a connection sends join-session for session s, every other
\* connection already joined to s receives exactly one participant-joined
\* carrying the joiner's userId, and the joiner receives none for its own join.
C3_Original ==
    [][(FrameRan("join-session") /\ lastEvent'.data.sessionId \in SessionIds) =>
        /\ inbox'[lastEvent'.conn] = inbox[lastEvent'.conn]
        /\ \A d \in Conns \ {lastEvent'.conn} :
              (Live(d) /\ currentSessionId[d] = lastEvent'.data.sessionId)
                  => Received(d, JoinedNote(lastEvent'.data, now))]_vars

\* C3 amended: ... every other connection already joined to s whose socket is
\* OPEN receives exactly one participant-joined carrying the joiner's userId
\* (the anonymous placeholder when the frame gives none), and the joiner none.
C3_JoinAnnouncedToOpenPeers ==
    [][(FrameRan("join-session") /\ lastEvent'.data.sessionId \in SessionIds) =>
        /\ inbox'[lastEvent'.conn] = inbox[lastEvent'.conn]
        /\ \A d \in Conns \ {lastEvent'.conn} :
              (readyState[d] = "OPEN"
                    /\ currentSessionId[d] = lastEvent'.data.sessionId)
                  => Received(d, JoinedNote(lastEvent'.data, now))]_vars

\* C3 witness: connection 2 has just joined the session connection 1 is in;
\* connection 1 holds exactly one participant-joined, naming user u2, and
\* connection 2 holds nothing.
C3_Witness ==
    /\ lastEvent.kind = "message"
    /\ lastEvent.conn = 2
    /\ lastEvent.data.json
    /\ lastEvent.data.type = "join-session"
    /\ lastEvent.data.sessionId \in SessionIds
    /\ currentSessionId[1] = lastEvent.data.sessionId
    /\ readyState[1] = "OPEN"
    /\ Len(inbox[1]) = 1
    /\ inbox[1][1].type = "participant-joined"
    /\ inbox[1][1].userId = "u2"
    /\ inbox[2] = <<>>

\* ------------------------------------------------ editor-change, cursor-move
\* the message an editor-change or cursor-move frame is relayed as: the frame's
\* own payload under the sender's user id; a property the frame lacks is absent
Relayed(data, uid, t) ==
    IF data.type = "editor-change"
    THEN (IF data.code = Undefined
          THEN [type |-> "editor-change", userId |-> uid,
                filePath |-> data.filePath, timestamp |-> t]
          ELSE [type |-> "editor-change", userId |-> uid, code |-> data.code,
                filePath |-> data.filePath, timestamp |-> t])
    ELSE [type |-> "cursor-move", userId |-> uid, position |-> data.position,
          filePath |-> data.filePath, timestamp |-> t]

\* the user id a connection gave at its join: its own, or the placeholder
GivenAtJoin(ws) == {UserIdOf(ws), "anonymous"}

\* C4 as stated: when a joined connection sends editor-change or cursor-move,
\* every other member of its session receives one message of the same kind with
\* the sender's userId as given at join and the frame's code/position and
\* filePath unchanged, and the sender receives no echo.
C4_Original ==
    [][((FrameRan("editor-change") \/ FrameRan("cursor-move"))
            /\ Truthy(currentSessionId[lastEvent'.conn])) =>
        LET ws == lastEvent'.conn
        IN  /\ userId[ws] \in GivenAtJoin(ws)
            /\ inbox'[ws] = inbox[ws]
            /\ \A d \in GroupOf(activeConnections, currentSessionId[ws]) \ {ws} :
                  Received(d, Relayed(lastEvent'.data, userId[ws], now))]_vars

\* C4 amended: ... every other member of its session whose socket is OPEN
\* receives one message of the same kind with the sender's userId as given at
\* join and the frame's payload unchanged, and the sender receives no echo.
C4_RelayedToOpenMembers ==
    [][((FrameRan("editor-change") \/ FrameRan("cursor-move"))
            /\ Truthy(currentSessionId[lastEvent'.conn])) =>
        LET ws == lastEvent'.conn
        IN  /\ userId[ws] \in GivenAtJoin(ws)
            /\ inbox'[ws] = inbox[ws]
            /\ \A d \in GroupOf(activeConnections, currentSessionId[ws]) \ {ws} :
                  readyState[d] = "OPEN"
                      => Received(d, Relayed(lastEvent'.data, userId[ws], now))]_vars

\* C4 witness: connection 1, joined as u1, has just sent editor-change "hello"
\* for a.ts; connection 2 holds it as its newest message and connection 1 holds
\* no editor-change.
C4_Witness ==
    /\ lastEvent.kind = "message"
    /\ lastEvent.conn = 1
    /\ lastEvent.data.json
    /\ lastEvent.data.type = "editor-change"
    /\ lastEvent.data.code = "hello"
    /\ userId[1] = "u1"
    /\ Len(inbox[2]) > 0
    /\ Last(inbox[2]) = [type |-> "editor-change", userId |-> "u1",
                         code |-> "hello", filePath |-> "a.ts",
                         timestamp |-> now - 1]
    /\ \A i \in 1..Len(inbox[1]) : inbox[1][i].type # "editor-change"

\* ------------------------------------------------------------- teardown
\* the participant-left announced for user uid at time t
LeftNote(uid, t) == [type |-> "participant-left", userId |-> uid, timestamp |-> t]

\* the teardown that has just run released connection ws from session s and
\* from nothing else, and ws itself was sent nothing
ReleasedOnce(ws, s) ==
    /\ ws \in GroupOf(activeConnections, s)
    /\ GroupOf(activeConnections', s) = GroupOf(activeConnections, s) \ {ws}
    /\ \A k \in Keys \ {s} :
          GroupOf(activeConnections', k) = GroupOf(activeConnections, k)
    /\ inbox'[ws] = inbox[ws]
    /\ (FrameRan("leave-session") => ~Truthy(currentSessionId'[ws]))

KnownTypes == {"join-session", "editor-change", "cursor-move", "leave-session"}

\* not JSON, an unknown type, or a known type without a field it requires
Malformed(data) ==
    \/ ~data.json
    \/ data.type \notin KnownTypes
    \/ data.type = "join-session" /\ data.sessionId = Undefined
    \/ data.type = "editor-change"
            /\ (data.code = Undefined \/ data.filePath = Undefined)
    \/ data.type = "cursor-move"
            /\ (data.position = Undefined \/ data.filePath = Undefined)

\* C7: a malformed inbound frame is dropped: the connection stays open, its
\* session and userId, the registry and every inbox are unchanged.
C7_MalformedDropped ==
    [][(lastEvent'.kind = "message" /\ Malformed(lastEvent'.data)) =>
        UNCHANGED <<activeConnections, currentSessionId, userId, readyState,
                    inbox>>]_vars

\* ------------------------------------------------------ unjoined connections
\* connection ws is joined to no session: its handler holds no session, or the
\* frame it sent last was leave-session
NotJoined(ws) ==
    \/ ~Truthy(currentSessionId[ws])
    \/ /\ lastEvent.kind = "message"
       /\ lastEvent.conn = ws
       /\ lastEvent.data.json
       /\ lastEvent.data.type = "leave-session"

\* C8: an editor-change, cursor-move or leave-session from a connection that is
\* joined to no session emits no broadcast and leaves the registry unchanged.
C8_UnjoinedIgnored ==
    [][((FrameRan("editor-change") \/ FrameRan("cursor-move")
                \/ FrameRan("leave-session"))
            /\ NotJoined(lastEvent'.conn)) =>
        /\ inbox' = inbox
        /\ activeConnections' = activeConnections]_vars

\* C8 witness: connection 1 joined, left, and has now sent an editor-change;
\* connection 2, still joined, holds the participant-left as its newest message
\* and nothing after it.
C8_Witness ==
    /\ lastEvent.kind = "message"
    /\ lastEvent.conn = 1
    /\ lastEvent.data.json
    /\ lastEvent.data.type = "editor-change"
    /\ currentSessionId[1] = Null
    /\ readyState[2] = "OPEN"
    /\ currentSessionId[2] \in SessionIds
    /\ Len(inbox[2]) > 0
    /\ Last(inbox[2]) = [type |-> "participant-left", userId |-> "u1",
                         timestamp |-> now - 2]

C10_DeliveredInProcessingOrder ==
    \A c \in Conns :
        \A i, j \in 1..Len(inbox[c]) :
            i < j => inbox[c][i].timestamp < inbox[c][j].timestamp

\* C10 witness: connection 3 holds an editor-change of u1 and, after it, an
\* editor-change of u2.
C10_Witness ==
    \E i, j \in 1..Len(inbox[3]) :
        /\ i < j
        /\ inbox[3][i].type = "editor-change"
        /\ inbox[3][i].userId = "u1"
        /\ inbox[3][j].type = "editor-change"
        /\ inbox[3][j].userId = "u2"


\* ===================================================== last-writer-wins
\* every frame sent has been handled and every broadcast has been delivered
Quiescent ==
    /\ \A c \in Conns : outbox[c] = <<>>
    /\ \A c \in Conns : delivered[c] = Len(inbox[c])

\* C11: when peers of one session have sent editor-changes for one file path
\* and stopped, and every broadcast has been delivered, every peer holds for
\* that path the code of the edit the router broadcast last.
C11_LastWriterWins ==
    (Quiescent /\ lastEvent.kind = "message")
        => \A c \in Conns :
              currentFileContent[c][lastEvent.data.filePath] = lastEvent.data.code

\* ------------------------------------------------------------ repeated join
\* C12: sending join-session again for a session the connection is already a
\* member of does not duplicate membership: the registry is unchanged and every
\* group holds each connection once; a broadcast is delivered to a connection at
\* most once, and once to every open member other than the sender; a single
\* leave-session or close takes the connection out of its session's group.
C12_RejoinNoDuplicate ==
    [][/\ (FrameRan("join-session")
            /\ lastEvent'.conn
                    \in GroupOf(activeConnections, lastEvent'.data.sessionId))
                => activeConnections' = activeConnections
       /\ \A s \in DOMAIN activeConnections' :
              Len(activeConnections'[s])
                  = Cardinality(GroupOf(activeConnections', s))
       /\ \A d \in Conns : Len(inbox'[d]) <= Len(inbox[d]) + 1
       /\ CallSession # Null =>
              \A d \in CallGroup \ {lastEvent'.conn} :
                  readyState[d] = "OPEN" => Len(inbox'[d]) = Len(inbox[d]) + 1
       /\ ((FrameRan("leave-session") \/ CloseRan)
                /\ Truthy(currentSessionId[lastEvent'.conn]))
              => lastEvent'.conn
                    \notin GroupOf(activeConnections',
                                   currentSessionId[lastEvent'.conn])]_vars

\* C12 witness: connection 1, already a member of "s1", sent join-session for
\* "s1" again (connection 2 holds the second announcement); connection 2 then
\* sent an editor-change, and connection 1 holds exactly one copy of it while the
\* group still lists every connection once.
C12_Witness ==
    /\ lastEvent.kind = "message"
    /\ lastEvent.conn = 2
    /\ lastEvent.data.json
    /\ lastEvent.data.type = "editor-change"
    /\ "s1" \in DOMAIN activeConnections
    /\ activeConnections["s1"] = <<1, 2, 3>>
    /\ \E i \in 1..Len(inbox[2]) :
          /\ inbox[2][i].type = "participant-joined"
          /\ inbox[2][i].userId = "u1"
    /\ Cardinality({i \in 1..Len(inbox[1]) :
            inbox[1][i].type = "editor-change"}) = 1


\* ===================================================== snapshot capture
\* the number of lines of a content: one more than its line separators
LineCount(content) == Len(SelectSeq(content, LAMBDA ch : ch = "\n")) + 1

RECURSIVE SumOver(_, _)
SumOver(S, f) ==
    IF S = {} THEN 0
    ELSE LET x == CHOOSE y \in S : TRUE IN f[x] + SumOver(S \ {x}, f)

\* the files of a stored snapshot are a File Set: a path -> content mapping
IsFileSet(files) == files.kind = "object"

PathsOf(files) == DOMAIN files.props

\* the total number of lines of the files of a File Set
TotalLines(files) ==
    SumOver(PathsOf(files), [p \in PathsOf(files) |-> LineCount(files.props[p])])

\* row i is the first snapshot stored for its session
FirstOfSession(i) ==
    \A j \in 1..(i - 1) : snapshots[j].sessionId # snapshots[i].sessionId

\* the rows captured from a File Set against a previous File Set
Diffed ==
    {i \in 1..Len(snapshots) :
        /\ snapshots[i].previousId # 0
        /\ IsFileSet(snapshots[i].diff.files)
        /\ IsFileSet(snapshots[snapshots[i].previousId].diff.files)}

NewFiles(i) == snapshots[i].diff.files

PrevFilesOf(i) == snapshots[snapshots[i].previousId].diff.files

LinesChangedOf(i) == snapshots[i].diff.metadata.linesChanged

\* C13: the first snapshot captured in a session has linesChanged equal to the
\* sum, over the files of its File Set, of their numbers of lines.
C13_FirstIsTotalLines ==
    \A i \in 1..Len(snapshots) :
        (FirstOfSession(i) /\ IsFileSet(NewFiles(i)))
            => LinesChangedOf(i) = TotalLines(NewFiles(i))

\* C13 witness: the first snapshot of "s1" holds {"a.ts": "x\ny", "b.ts": "x\ny"}
\* and has linesChanged = 4.
C13_Witness ==
    /\ Len(snapshots) > 0
    /\ snapshots[1].sessionId = "s1"
    /\ NewFiles(1) = FilesObject([p \in {"a.ts", "b.ts"} |-> <<"x", "\n", "y">>])
    /\ LinesChangedOf(1) = 4

\* C14: when a previous snapshot exists, a path present in both File Sets
\* contributes exactly |currentLines - previousLines|: when the two File Sets hold
\* the same paths, linesChanged is the sum of those differences.
C14_CommonPathsContributeDifference ==
    \A i \in Diffed :
        PathsOf(NewFiles(i)) = PathsOf(PrevFilesOf(i))
            => LinesChangedOf(i)
                = SumOver(PathsOf(NewFiles(i)),
                    [p \in PathsOf(NewFiles(i)) |->
                        Abs(LineCount(NewFiles(i).props[p])
                                - LineCount(PrevFilesOf(i).props[p]))])

\* C15: when a previous snapshot exists, a path present only in the new File Set
\* contributes its full line count: against an empty previous File Set,
\* linesChanged is the total number of lines of the new File Set.
C15_AddedPathsContributeLines ==
    \A i \in Diffed :
        PathsOf(PrevFilesOf(i)) = {}
            => LinesChangedOf(i) = TotalLines(NewFiles(i))

\* C16: when a previous snapshot exists, exactly the paths of the previous File
\* Set that are absent from the new one are counted as removed, each with its
\* previous line count; a path the new File Set holds, even with empty content,
\* is not: what linesChanged holds beyond the comparison of the new files is the
\* total of the lines of the absent paths.
C16_RemovedPathsContributeLines ==
    \A i \in Diffed :
        LET gone == PathsOf(PrevFilesOf(i)) \ PathsOf(NewFiles(i))
        IN  LinesChangedOf(i)
                - CompareLoop(NewFiles(i), PrevFilesOf(i),
                              ObjectKeys(NewFiles(i)), 1, 0)
              = SumOver(gone,
                    [p \in gone |-> LineCount(PrevFilesOf(i).props[p])])

\* C17: filesModified of every capture of a File Set lists exactly the paths of
\* that File Set, each once; a path held only by the previous snapshot is not in
\* it.
C17_FilesModifiedIsNewPaths ==
    \A i \in 1..Len(snapshots) :
        IsFileSet(NewFiles(i)) =>
            LET filesModified == snapshots[i].diff.metadata.filesModified
            IN  /\ Range(filesModified) = PathsOf(NewFiles(i))
                /\ Len(filesModified) = Cardinality(PathsOf(NewFiles(i)))

\* C17 witness: a snapshot holding only "b.ts" was diffed against one holding
\* only "a.ts", and its filesModified is <<"b.ts">>.
C17_Witness ==
    \E i \in Diffed :
        /\ PathsOf(PrevFilesOf(i)) = {"a.ts"}
        /\ PathsOf(NewFiles(i)) = {"b.ts"}
        /\ snapshots[i].diff.metadata.filesModified = <<"b.ts">>

\* C18: every capture is diffed against the snapshot of its session that
\* immediately precedes it in creation order (against none when it is the first).
C18_DiffedAgainstPredecessor ==
    \A i \in 1..Len(snapshots) :
        snapshots[i].previousId
            = PreviousSnapshot(SubSeq(snapshots, 1, i - 1), snapshots[i].sessionId)

\* C19: every snapshot the capture persists stores diff.files as a path ->
\* content mapping, whatever shape was submitted.
C19_StoredFilesAreMapping ==
    \A i \in 1..Len(snapshots) : IsFileSet(NewFiles(i))

LeaveEffect(ws) ==
    <<RemoveConnection(activeConnections, currentSessionId[ws], ws),
      Broadcast(activeConnections, currentSessionId[ws],
                ParticipantLeft(userId[ws]), ws, readyState, inbox)>>

\* the registry and the inboxes ws.on('close') leaves behind for a joined
\* connection: release the membership, then announce to what is left
CloseEffect(ws) ==
    LET removed == RemoveConnection(activeConnections, currentSessionId[ws], ws)
    IN  <<removed,
          Broadcast(removed, currentSessionId[ws], ParticipantLeft(userId[ws]),
                    ws, [readyState EXCEPT ![ws] = "CLOSED"], inbox)>>

\* C29: for a joined connection, transport close has the same effect as
\* leave-session: from one state both leave the same registry and deliver the
\* same participant-left to the same peers, and never to the connection itself.
C29_CloseSameAsLeave ==
    [][((FrameRan("leave-session") \/ CloseRan)
            /\ Truthy(currentSessionId[lastEvent'.conn])) =>
        LET ws == lastEvent'.conn
        IN  /\ <<activeConnections', inbox'>> = LeaveEffect(ws)
            /\ <<activeConnections', inbox'>> = CloseEffect(ws)
            /\ inbox'[ws] = inbox[ws]]_vars

\* C29 witness: connection 1 left by leave-session and connection 2 by transport
\* close; connection 3, alone in the group, holds a participant-left for each.
C29_Witness ==
    /\ lastEvent.kind = "close"
    /\ lastEvent.conn = 2
    /\ "s1" \in DOMAIN activeConnections
    /\ activeConnections["s1"] = <<3>>
    /\ currentSessionId[1] = Null
    /\ Len(inbox[3]) = 2
    /\ inbox[3][1] = [type |-> "participant-left", userId |-> "u1",
                      timestamp |-> now - 2]
    /\ inbox[3][2] = [type |-> "participant-left", userId |-> "u2",
                      timestamp |-> now - 1]


\* ------------------------------------------------- joining another session
\* the frame just handled is a join-session from a connection joined to one
\* session, naming a different session
Rejoined ==
    /\ FrameRan("join-session")
    /\ currentSessionId[lastEvent'.conn] \in SessionIds
    /\ lastEvent'.data.sessionId \in SessionIds \ {currentSessionId[lastEvent'.conn]}

\* the frame just handled is a broadcasting frame from a connection associated
\* with one session and still listed in the group of another, as a join from a
\* joined connection leaves it
SentAfterRejoin ==
    /\ FrameRan("editor-change") \/ FrameRan("cursor-move")
            \/ FrameRan("leave-session")
    /\ currentSessionId[lastEvent'.conn] \in SessionIds
    /\ \E s1 \in SessionIds \ {currentSessionId[lastEvent'.conn]} :
            lastEvent'.conn \in GroupOf(activeConnections, s1)

\* C30: when a connection joined to s1 sends join-session for another session
\* s2, its association becomes s2, the open members of s2 receive
\* participant-joined and nobody else receives anything (so no participant-left
\* reaches s1); its later editor-change, cursor-move and leave-session messages
\* reach the open members of s2's group and nobody outside that group.
C30_RejoinReplacesAssociation ==
    [][LET ws == lastEvent'.conn
       IN  /\ Rejoined =>
                LET s2 == lastEvent'.data.sessionId
                IN  /\ currentSessionId'[ws] = s2
                    /\ \A d \in Conns \ {ws} :
                          IF d \in GroupOf(activeConnections, s2)
                                /\ readyState[d] = "OPEN"
                          THEN Received(d, JoinedNote(lastEvent'.data, now))
                          ELSE inbox'[d] = inbox[d]
                    /\ inbox'[ws] = inbox[ws]
           /\ SentAfterRejoin =>
                LET s2 == currentSessionId[ws]
                IN  /\ \A d \in Conns \ {ws} :
                          IF d \in GroupOf(activeConnections, s2)
                                /\ readyState[d] = "OPEN"
                          THEN Delivered(d) /\ Last(inbox'[d]).userId = userId[ws]
                          ELSE inbox'[d] = inbox[d]
                    /\ inbox'[ws] = inbox[ws]]_vars

\* C30 witness: connection 1, joined to "s1" with connection 2, joined "s2" where
\* connection 3 is, and then sent an editor-change: connection 3 holds the
\* participant-joined and the editor-change, connection 2 was sent neither nor a
\* participant-left, and connection 1 is still listed under "s1".
C30_Witness ==
    /\ lastEvent.kind = "message"
    /\ lastEvent.conn = 1
    /\ lastEvent.data.json
    /\ lastEvent.data.type = "editor-change"
    /\ currentSessionId[1] = "s2"
    /\ 1 \in GroupOf(activeConnections, "s1")
    /\ 1 \in GroupOf(activeConnections, "s2")
    /\ Len(inbox[3]) = 2
    /\ inbox[3][1] = [type |-> "participant-joined", userId |-> "u1",
                      timestamp |-> now - 2]
    /\ inbox[3][2].type = "editor-change"
    /\ inbox[3][2].userId = "u1"
    /\ inbox[3][2].timestamp = now - 1
    /\ inbox[2] = <<>>


\* ------------------------------------------------------ snapshot-created
\* the handler of request r has just finished with the given status
CaptureEnded(r, status) ==
    /\ lastEvent'.kind = "created"
    /\ lastEvent'.conn = r
    /\ requests'[r].status = status

\* connection d has been sent exactly one more message: the snapshot-created of
\* the row just inserted, with that row's id and metadata
Notified(d) ==
    /\ Len(inbox'[d]) = Len(inbox[d]) + 1
    /\ Received(d, Last(inbox'[d]))
    /\ Last(inbox'[d]).type = "snapshot-created"
    /\ Last(inbox'[d]).snapshotId = Last(snapshots').id
    /\ Last(inbox'[d]).sessionId = Last(snapshots').sessionId
    /\ Last(inbox'[d]).metadata = Last(snapshots').diff.metadata

\* a capture persists its row before it emits anything, a failed capture
\* persists and emits nothing, and the part of the handler before the insert
\* emits nothing
CaptureFrame ==
    /\ \A r \in ReqIds :
          /\ CaptureEnded(r, 201) =>
                /\ Len(snapshots') = Len(snapshots) + 1
                /\ Last(snapshots').sessionId = requests[r].sessionId
          /\ CaptureEnded(r, 400) => (snapshots' = snapshots /\ inbox' = inbox)
    /\ lastEvent'.kind = "post" => (snapshots' = snapshots /\ inbox' = inbox)

\* C22 as stated: each successful capture for session s emits exactly one
\* snapshot-created, after the snapshot is persisted, to every connection
\* currently joined to s, carrying the persisted id and the computed metadata; a
\* failed capture emits none.
C22_Original ==
    [][/\ CaptureFrame
       /\ \A r \in ReqIds : CaptureEnded(r, 201) =>
             \A d \in Conns :
                 (Live(d) /\ currentSessionId[d] = requests[r].sessionId)
                     => Notified(d)]_vars

\* C22: each successful capture for session s emits exactly one
\* snapshot-created, after the snapshot is persisted, to every connection in the
\* group of s whose socket is OPEN, carrying the persisted id and the computed
\* metadata, and to no other connection; a failed capture emits none, and a
\* capture for a session without a group succeeds and emits nothing.
C22_SnapshotCreatedToOpenMembers ==
    [][/\ CaptureFrame
       /\ \A r \in ReqIds : CaptureEnded(r, 201) =>
             /\ \A d \in Conns :
                   IF d \in GroupOf(activeConnections, requests[r].sessionId)
                         /\ readyState[d] = "OPEN"
                   THEN Notified(d)
                   ELSE inbox'[d] = inbox[d]
             /\ GroupOf(activeConnections, requests[r].sessionId) = {}
                   => inbox' = inbox]_vars

\* C22 witness: two captures succeeded, the first for "s2", which has no group,
\* the second for "s1": the open connections 1 and 2 hold one snapshot-created,
\* naming the second row and its metadata, and the closing connection 3, still a
\* member of the group, was sent nothing.
C22_Witness ==
    /\ lastEvent.kind = "created"
    /\ Len(snapshots) = 2
    /\ snapshots[1].sessionId = "s2"
    /\ snapshots[2].sessionId = "s1"
    /\ \A r \in ReqIds : requests[r].pc = "done" /\ requests[r].status = 201
    /\ \A d \in {1, 2} :
          /\ Len(inbox[d]) = Cardinality(Conns) - d + 1
          /\ Last(inbox[d]).type = "snapshot-created"
          /\ Last(inbox[d]).snapshotId = 2
          /\ Last(inbox[d]).metadata = snapshots[2].diff.metadata
    /\ readyState[3] = "CLOSING"
    /\ 3 \in GroupOf(activeConnections, "s1")
    /\ inbox[3] = <<>>


\* ------------------------------------------------------- session status
\* C27: in every reachable state the status of every stored session is one of
\* scheduled, live, finished, cancelled, and a status-update request with
\* another value is rejected and leaves every status unchanged.
C27_StatusAlwaysListed ==
    /\ \A i \in 1..Len(sessions) : sessions[i].status \in Statuses
    /\ (lastEvent.kind = "session-status" /\ lastEvent.data.status \notin Statuses)
            => lastEvent.data.code = 400


\* ------------------------------------------------------ stored snapshots
\* some capture has just succeeded
Captured == \E r \in ReqIds : CaptureEnded(r, 201)

\* C21: snapshots are immutable and append-only: whatever runs (a capture, a
\* restore, a return to live, an editor change, a file save, a comment), every
\* stored snapshot record keeps its place, files and metadata; a successful
\* capture adds exactly one record and nothing else adds or removes any.
C21_SnapshotsAppendOnly ==
    [][/\ Len(snapshots') >= Len(snapshots)
       /\ \A i \in 1..Len(snapshots) : snapshots'[i] = snapshots[i]
       /\ Len(snapshots') = Len(snapshots) + (IF Captured THEN 1 ELSE 0)]_vars

\* C21 witness: after a first capture the page restored snapshot 1 and returned
\* to live, another participant saved a file, and a second capture succeeded:
\* two records are stored, the first one the restore's.
C21_Witness ==
    /\ lastEvent.kind = "created"
    /\ Len(snapshots) = 2
    /\ snapshots[1].id = 1
    /\ snapshots[2].id = 2
    /\ toast[1].title = "Snapshot loaded"
    /\ ~isViewingSnapshot[1]
    /\ filesFetch[1] = "refetch"
    /\ projectFiles[1].content = Saved


\* ------------------------------------------------- read-side normalisation
\* the sequences of {path, content} pairs a legacy diff may hold: up to two
\* pairs, no path twice
PairLists ==
    {<<>>}
    \cup {<<[path |-> p, content |-> c]>> : p \in Range(Paths), c \in Contents}
    \cup {pairs \in
            {<<[path |-> p, content |-> c], [path |-> q, content |-> d]>> :
                p \in Range(Paths), q \in Range(Paths),
                c \in Contents, d \in Contents} :
            pairs[1].path # pairs[2].path}

\* the path->content mapping with the pairs of a sequence:
\* the mapping's value at a path is the content paired with it
MappingOf(pairs) ==
    FilesObject([p \in {pairs[i].path : i \in 1..Len(pairs)} |->
                    pairs[CHOOSE i \in 1..Len(pairs) : pairs[i].path = p].content])

\* the {path, content} pairs of a stored diff.files, of either shape
PairsOf(diffFiles) ==
    IF diffFiles.kind = "array"
    THEN {[path |-> diffFiles.items[i].path,
           content |-> diffFiles.items[i].content] :
                i \in 1..Len(diffFiles.items)}
    ELSE {[path |-> p, content |-> diffFiles.props[p]] :
                p \in DOMAIN diffFiles.props}

\* for every such sequence, the sequence and its mapping normalise to the same
\* nodes, one per pair, carrying the pair's path and content
PairListsAgree ==
    \A pairs \in PairLists :
        /\ Range(Normalize(FilesArray(pairs)))
              = Range(Normalize(MappingOf(pairs)))
        /\ Len(Normalize(FilesArray(pairs)))
              = Len(Normalize(MappingOf(pairs)))
        /\ {[path |-> n.path, content |-> n.content] :
                  n \in Range(Normalize(MappingOf(pairs)))} = Range(pairs)

\* C23: read-side normalisation does not depend on the shape: a legacy
\* sequence of {path, content} pairs and the path->content mapping with the same
\* pairs normalise to the same File Set, the same nodes with the same paths and
\* contents; so do any two stored snapshots holding the same pairs.
C23_NormalizeShapeIndependent ==
    /\ PairListsAgree
    /\ \A i \in 1..Len(snapshots) : \A j \in 1..Len(snapshots) :
          PairsOf(snapshots[i].diff.files) = PairsOf(snapshots[j].diff.files)
              => Range(Normalize(snapshots[i].diff.files))
                    = Range(Normalize(snapshots[j].diff.files))

\* C23 witness: snapshot 1 is stored in the legacy shape and snapshot 2 as a
\* mapping with the same single pair; the page restored snapshot 2, and the
\* nodes it holds are those snapshot 1 normalises to.
C23_Witness ==
    /\ Len(snapshots) = 2
    /\ snapshots[1].diff.files.kind = "array"
    /\ snapshots[2].diff.files.kind = "object"
    /\ PairsOf(snapshots[1].diff.files) = PairsOf(snapshots[2].diff.files)
    /\ isViewingSnapshot[1]
    /\ currentSnapshotId[1] = 2
    /\ Len(snapshotFiles[1]) = 1
    /\ snapshotFiles[1] = Normalize(snapshots[1].diff.files)


\* ------------------------------------------------------- restore, refused
\* the callback that has just run is page c's restore of stored snapshot id
Restored(c, id) ==
    /\ lastEvent'.kind = "restore"
    /\ lastEvent'.conn = c
    /\ lastEvent'.data.arg = id
    /\ id \in 1..Len(snapshots)

\* C24: restore(snapshotId) on a snapshot whose normalised File Set is empty
\* (files missing, empty sequence or empty mapping) reports an error and leaves
\* the read-only flag, the historical File Set and the current snapshot id as
\* they were; no restore ever produces a read-only view without files.
C24_EmptyRestoreRefused ==
    [][\A c \in Viewers :
        /\ \A id \in ViewReqs :
              (Restored(c, id) /\ Normalize(snapshots[id].diff.files) = <<>>)
                  => /\ toast'[c] = [variant |-> "destructive", title |-> "Error"]
                     /\ isViewingSnapshot'[c] = isViewingSnapshot[c]
                     /\ snapshotFiles'[c] = snapshotFiles[c]
                     /\ currentSnapshotId'[c] = currentSnapshotId[c]
                     /\ editorFiles'[c] = editorFiles[c]
        /\ isViewingSnapshot'[c] => Len(snapshotFiles'[c]) > 0
        /\ Normalize(NoFiles) = <<>>
        /\ Normalize(EmptyObject) = <<>>
        /\ Normalize(FilesArray(<<>>)) = <<>>]_vars

\* C24 witness: the page was viewing snapshot 1 when it asked for snapshot 2,
\* whose files are empty: it shows the error and still views snapshot 1.
C24_Witness ==
    /\ lastEvent.kind = "restore"
    /\ lastEvent.data.arg = 2
    /\ Len(snapshots) = 2
    /\ Normalize(snapshots[2].diff.files) = <<>>
    /\ toast[1] = [variant |-> "destructive", title |-> "Error"]
    /\ isViewingSnapshot[1]
    /\ currentSnapshotId[1] = 1
    /\ snapshotFiles[1] = Normalize(snapshots[1].diff.files)
    /\ Len(snapshotFiles[1]) = 1


\* ------------------------------------------------- what the editor displays
\* the File Set of a sequence of nodes or rows: its {path, content} pairs
FileSetOf(nodes) ==
    {[path |-> nodes[i].path, content |-> nodes[i].content] :
        i \in 1..Len(nodes)}

\* C25: after restore(snapshotId) succeeds the view is read-only, the File Set
\* the editor displays is the snapshot's normalised File Set, and snapshotId is
\* the current snapshot, so that a comment created next is attached to it.
C25_RestoreShowsSnapshot ==
    [][\A c \in Viewers :
        /\ \A id \in ViewReqs :
              (Restored(c, id) /\ Normalize(snapshots[id].diff.files) # <<>>)
                  => /\ isViewingSnapshot'[c]
                     /\ FileSetOf(editorFiles'[c])
                            = FileSetOf(Normalize(snapshots[id].diff.files))
                     /\ currentSnapshotId'[c] = id
        /\ (/\ lastEvent.kind = "restore"
            /\ lastEvent.conn = c
            /\ toast[c].title = "Snapshot loaded"
            /\ lastEvent'.kind = "comment"
            /\ lastEvent'.conn = c)
                => /\ Len(comments') = Len(comments) + 1
                   /\ Last(comments').snapshotId = lastEvent.data.arg]_vars

\* C26: after returnToLive() the historical File Set is discarded and the
\* read-only flag is cleared, and once the re-fetch it starts has answered, the
\* File Set the editor displays is the one storage held at that moment.
C26_BackToLiveShowsStorage ==
    [][\A c \in Viewers :
        /\ (lastEvent'.kind = "back-to-live" /\ lastEvent'.conn = c)
              => (~isViewingSnapshot'[c] /\ snapshotFiles'[c] = <<>>)
        /\ (lastEvent'.kind = "fetched" /\ lastEvent'.conn = c
                /\ filesFetch[c] = "refetch")
              => /\ ~isViewingSnapshot'[c]
                 /\ snapshotFiles'[c] = <<>>
                 /\ FileSetOf(editorFiles'[c]) = FileSetOf(projectFiles)]_vars


\* ----------------------------------------------------------------- replay
\* C28: session replay accepts both stored shapes: for every stored snapshot
\* that has a file, whether its files is the path->content mapping or the legacy
\* sequence, the replay view shows the content of one of its files and not the
\* placeholder.
C28_ReplayShowsFileOfEitherShape ==
    \A i \in 1..Len(snapshots) :
        PairsOf(snapshots[i].diff.files) # {}
            => FileContent(snapshots[i].diff.files)
                    \in {pair.content : pair \in PairsOf(snapshots[i].diff.files)}


\* ------------------------------------------------------- relays, server side
\* the frame just handled is an editor-change or a cursor-move
RelayRan == FrameRan("editor-change") \/ FrameRan("cursor-move")

\* C32: processing an editor-change or cursor-move leaves all server-side state
\* unchanged: the registry, every connection's joined session and userId, the
\* stored files and the stored snapshots (and the other tables) are the same
\* before and after; only what has been sent to connections may differ.
C32_RelayLeavesServerState ==
    [][RelayRan =>
        /\ activeConnections' = activeConnections
        /\ currentSessionId' = currentSessionId
        /\ userId' = userId
        /\ readyState' = readyState
        /\ projectFiles' = projectFiles
        /\ snapshots' = snapshots
        /\ requests' = requests
        /\ sessions' = sessions
        /\ comments' = comments]_vars

\* C32 witness: connection 1 moved to "s2" and connection 3 then sent an
\* editor-change there: connection 1 holds it, and the registry, the joined
\* sessions and the user ids are those the join left.
C32_Witness ==
    /\ lastEvent.kind = "message"
    /\ lastEvent.conn = 3
    /\ lastEvent.data.json
    /\ lastEvent.data.type = "editor-change"
    /\ lastEvent.data.code = CodeOf(3)
    /\ Last(inbox[1]) = [type |-> "editor-change", userId |-> "u3",
                         code |-> CodeOf(3), filePath |-> "a.ts",
                         timestamp |-> now - 1]
    /\ activeConnections = [k \in SessionIds |->
                                IF k = "s1" THEN <<1, 2>> ELSE <<3, 1>>]
    /\ currentSessionId = [c \in Conns |-> IF c = 2 THEN "s1" ELSE "s2"]
    /\ userId = [c \in Conns |-> UserIdOf(c)]
    /\ snapshots = <<>>
    /\ projectFiles = ProjectFiles

\* what the handler sends for a relay frame, had the frame named session s
RelayNaming(ws, s) ==
    LET data == [lastEvent'.data EXCEPT !.sessionId = s]
    IN  IF ~Truthy(currentSessionId[ws]) THEN inbox
        ELSE Broadcast(activeConnections, currentSessionId[ws],
                       IF data.type = "editor-change"
                       THEN EditorChangeMsg(userId[ws], data)
                       ELSE CursorMoveMsg(userId[ws], data),
                       ws, readyState, inbox)

\* C34: an editor-change or cursor-move is delivered only to members of the
\* group of the session the sender last joined, and to nobody when it has
\* joined none; whatever sessionId the frame carries, the same connections are
\* sent the same messages.
C34_RelayOnlyToJoinedSession ==
    [][RelayRan =>
        LET ws == lastEvent'.conn
        IN  /\ \A d \in Conns :
                  inbox'[d] # inbox[d]
                      => /\ Truthy(currentSessionId[ws])
                         /\ d \in GroupOf(activeConnections, currentSessionId[ws])
            /\ \A s \in SessionIds \cup {Undefined} :
                  inbox' = RelayNaming(ws, s)]_vars

\* C34 witness: connection 3, joined to "s2" alone, sent an editor-change whose
\* sessionId field names "s1": connections 1 and 2, the group of "s1", were
\* sent nothing.
C34_Witness ==
    /\ lastEvent.kind = "message"
    /\ lastEvent.conn = 3
    /\ lastEvent.data.json
    /\ lastEvent.data.type = "editor-change"
    /\ lastEvent.data.sessionId = "s1"
    /\ currentSessionId[3] = "s2"
    /\ GroupOf(activeConnections, "s1") = {1, 2}
    /\ GroupOf(activeConnections, "s2") = {3}
    /\ Len(inbox[1]) = 1
    /\ inbox[1][1].type = "participant-joined"
    /\ inbox[2] = <<>>
    /\ now = Cardinality(Conns) + 1


\* --------------------------------------------------------- closed connections
\* C33: after a connection's transport has closed, the connection is a member
\* of no group of the registry, whatever join-session frames preceded the close;
\* hence no group consists only of closed connections.
C33_ClosedInNoGroup ==
    /\ \A ws \in Conns :
          readyState[ws] = "CLOSED"
              => \A s \in DOMAIN activeConnections :
                    ws \notin GroupOf(activeConnections, s)
    /\ \A s \in DOMAIN activeConnections :
          \E ws \in GroupOf(activeConnections, s) : readyState[ws] # "CLOSED"


\* ------------------------------------------------------ identical captures
\* the rows of row i's session stored before it
EarlierOf(i) ==
    {j \in 1..(i - 1) : snapshots[j].sessionId = snapshots[i].sessionId}

\* the rows diffed against the most recent previous snapshot of their session
DiffedAgainstLatest ==
    {i \in Diffed :
        /\ snapshots[i].previousId \in EarlierOf(i)
        /\ \A k \in EarlierOf(i) : k <= snapshots[i].previousId}

\* C35: capturing a File Set identical to the File Set of the most recent
\* previous snapshot of the session yields linesChanged = 0, for every File Set,
\* including ones that hold a file with empty content.
C35_IdenticalCaptureIsZero ==
    \A i \in DiffedAgainstLatest :
        NewFiles(i) = PrevFilesOf(i) => LinesChangedOf(i) = 0


\* ------------------------------------------------- delivery at the receiver
\* socket.onmessage of page c ran for the next message of its inbox
DeliveredTo(c) == delivered'[c] = delivered[c] + 1

\* C31: at each receiving page, immediately after an editor-change for path p
\* sent by a peer is delivered, the page's content for p is that message's code
\* and every other path is unchanged.
C31_DeliveryReplacesPath ==
    [][\A c \in Conns :
          (DeliveredTo(c) /\ inbox[c][delivered'[c]].type = "editor-change")
              => LET message == inbox[c][delivered'[c]]
                 IN  /\ currentFileContent'[c][message.filePath] = message.code
                     /\ \A q \in FilePaths \ {message.filePath} :
                            currentFileContent'[c][q]
                                = currentFileContent[c][q]]_vars


\* ---------------------------------------------------- the read-only view
\* page c sent a frame to the router in this step
SentFrame(c) == Len(outbox'[c]) > Len(outbox[c])

\* page c issued a file-content update in this step
IssuedSave(c) ==
    lastEvent' # lastEvent /\ lastEvent'.kind = "save" /\ lastEvent'.conn = c

\* C36: from a successful restore until returnToLive the page is read-only
\* towards the rest of the system: it sends no editor-change message and issues
\* no file-content update to storage, not even one scheduled by an edit made
\* before the restore.
C36_ViewingIsReadOnly ==
    [][\A c \in Conns :
          isViewingSnapshot[c] => ~SentFrame(c) /\ ~IssuedSave(c)]_vars

\* ------------------------------------------------------- debounced saves
\* the paths of the files table
StoredPaths == {projectFiles[i].path : i \in 1..Len(projectFiles)}

\* the save timers of page c that are pending for path p
PendingFor(c, p) == {t \in timers[c] : t.filePath = p}

\* the stored content of path p
StoredContent(p) ==
    projectFiles[CHOOSE i \in 1..Len(projectFiles) :
                    projectFiles[i].path = p].content

\* C37: debounced persistence is last-edit-wins per file: for each path that
\* exists in storage at most one save of a page is pending at a time, every new
\* local edit to the path cancels the pending save (the only save then pending
\* carries the edit), and once the edits to the path have stopped and no save
\* is pending, the content in storage is that of the last local edit.
C37_LastEditIsSaved ==
    \A c \in Viewers : \A p \in StoredPaths :
        p \in DOMAIN currentFileContent[c] =>
            /\ Cardinality(PendingFor(c, p)) <= 1
            /\ \A t \in PendingFor(c, p) :
                    t.content = currentFileContent[c][p]
            /\ PendingFor(c, p) = {} =>
                    StoredContent(p) = currentFileContent[c][p]


\* ---------------------------------------------------------- replay ends
\* the replay callback of this kind ran in this step
ReplayStep(kind) == lastEvent' # lastEvent /\ lastEvent'.kind = kind

\* a manual move of the index: previous or next that moved it, or the slider
ManualMove ==
    \/ (ReplayStep("previous") \/ ReplayStep("next"))
            /\ currentIndex' # currentIndex
    \/ ReplayStep("slider")

\* C38: session replay auto-play terminates: while playing, each tick advances
\* the current index by exactly one; the index never exceeds
\* snapshots.length - 1; when the last snapshot is reached playing is false;
\* any manual previous, next or slider move stops playing; and playing always
\* comes to an end.
C38_AutoPlayTerminates ==
    /\ [](currentIndex \in 0..(snapshotsLength - 1))
    /\ [](currentIndex = snapshotsLength - 1 => ~isPlaying)
    /\ [][/\ ReplayStep("tick") =>
                isPlaying /\ currentIndex' = currentIndex + 1
          /\ ManualMove => ~isPlaying']_vars
    /\ (isPlaying ~> ~isPlaying)

\* C38 witness: auto-play ran from an earlier snapshot to the last of four and
\* stopped there.
C38_Witness ==
    /\ lastEvent.kind = "tick"
    /\ lastEvent.data.arg = MaxReplay - 2
    /\ snapshotsLength = MaxReplay
    /\ currentIndex = snapshotsLength - 1
    /\ ~isPlaying

====
